---------------------------- MODULE Spec2Model ----------------------------
(***************************************************************************)
(* A model of bibtools (MilkClouds/bibtools): verification of bibtex       *)
(* entries against CrossRef / DBLP / arXiv through Semantic Scholar        *)
(* identifier resolution.                                                   *)
(*                                                                         *)
(* Text is modelled as a sequence of atoms.  An atom is a word of          *)
(* non-blank characters, a punctuation mark, or one blank " ".  The        *)
(* regular expressions and string functions of the program are translated  *)
(* atom by atom, so that writing an annotation and reading it back are     *)
(* two different computations.                                              *)
(***************************************************************************)
EXTENDS Integers, Sequences, FiniteSets, TLC

None == "None"

(***************************************************************************)
(* Generic helpers on sequences of atoms.                                  *)
(***************************************************************************)
Range(s) == { s[i] : i \in 1..Len(s) }

\* s[a..b], empty when a > b (Python slice s[a-1:b]).
Slice(s, a, b) == IF a > b THEN << >> ELSE SubSeq(s, a, b)

\* Index of the first atom of s that is in set S, 0 when there is none.
FirstIn(s, S) ==
  IF \E i \in 1..Len(s) : s[i] \in S
  THEN CHOOSE i \in 1..Len(s) : s[i] \in S /\ \A j \in 1..(i-1) : s[j] \notin S
  ELSE 0

\* Index of the last atom of s that is not in set S, 0 when there is none.
LastNotIn(s, S) ==
  IF \E i \in 1..Len(s) : s[i] \notin S
  THEN CHOOSE i \in 1..Len(s) : s[i] \notin S /\ \A j \in (i+1)..Len(s) : s[j] \in S
  ELSE 0

FirstNotIn(s, S) ==
  IF \E i \in 1..Len(s) : s[i] \notin S
  THEN CHOOSE i \in 1..Len(s) : s[i] \notin S /\ \A j \in 1..(i-1) : s[j] \in S
  ELSE 0

Blank == {" "}

\* str.strip()
Strip(s) ==
  IF FirstNotIn(s, Blank) = 0 THEN << >>
  ELSE Slice(s, FirstNotIn(s, Blank), LastNotIn(s, Blank))

\* Removal of every atom of set S (re.sub(r"[...]", "", s)).
RECURSIVE RemoveAtoms(_, _)
RemoveAtoms(s, S) ==
  IF s = << >> THEN << >>
  ELSE IF Head(s) \in S THEN RemoveAtoms(Tail(s), S)
       ELSE <<Head(s)>> \o RemoveAtoms(Tail(s), S)

\* " ".join(s.split()): blanks at both ends dropped, inner runs made one blank.
RECURSIVE CollapseRuns(_)
CollapseRuns(s) ==
  IF Len(s) <= 1 THEN s
  ELSE IF s[1] = " " /\ s[2] = " " THEN CollapseRuns(Tail(s))
       ELSE <<Head(s)>> \o CollapseRuns(Tail(s))

NormalizeWhitespace(s) == CollapseRuns(Strip(s))

\* s contains t as a contiguous run (Python "t in s").
Contains(s, t) ==
  \E i \in 1..(Len(s) - Len(t) + 1) : SubSeq(s, i, i + Len(t) - 1) = t

\* separator.join(parts)
RECURSIVE Join(_, _)
Join(parts, sep) ==
  IF parts = << >> THEN << >>
  ELSE IF Len(parts) = 1 THEN parts[1]
       ELSE parts[1] \o sep \o Join(Tail(parts), sep)


(***************************************************************************)
(* Dates.  A date string is one atom; DateDigits gives the digits of the   *)
(* atoms of the shape \d{4}\.\d{2}\.\d{2} that the model uses.  Other      *)
(* atoms ("invalid", "2024-01-01") do not have that shape.                 *)
(***************************************************************************)
DateDigits ==
  [ a \in { "2024.03.01", "2024.03.02", "2024.03.03", "2024.02.29", "2024.02.28",
            "2024.02.27", "2023.03.01", "2023.02.29", "2024.13.01", "0000.01.01" } |->
    CASE a = "2024.03.01" -> <<2024, 3, 1>>
      [] a = "2024.03.02" -> <<2024, 3, 2>>
      [] a = "2024.03.03" -> <<2024, 3, 3>>
      [] a = "2024.02.29" -> <<2024, 2, 29>>
      [] a = "2024.02.28" -> <<2024, 2, 28>>
      [] a = "2024.02.27" -> <<2024, 2, 27>>
      [] a = "2023.03.01" -> <<2023, 3, 1>>
      [] a = "2023.02.29" -> <<2023, 2, 29>>
      [] a = "2024.13.01" -> <<2024, 13, 1>>
      [] a = "0000.01.01" -> <<0, 1, 1>> ]

IsDateShaped(a) == a \in DOMAIN DateDigits

IsLeap(y) == (y % 4 = 0) /\ ((y % 100 # 0) \/ (y % 400 = 0))

DaysInMonth(y, m) ==
  CASE m \in {1, 3, 5, 7, 8, 10, 12} -> 31
    [] m \in {4, 6, 9, 11} -> 30
    [] m = 2 -> IF IsLeap(y) THEN 29 ELSE 28

RECURSIVE DaysBeforeMonth(_, _)
DaysBeforeMonth(y, m) ==
  IF m <= 1 THEN 0 ELSE DaysBeforeMonth(y, m - 1) + DaysInMonth(y, m - 1)

\* datetime.toordinal(): days since 0001-01-01, which is day 1.
ToOrdinal(ymd) ==
  LET y1 == ymd[1] - 1
  IN  y1 * 365 + (y1 \div 4) - (y1 \div 100) + (y1 \div 400)
      + DaysBeforeMonth(ymd[1], ymd[2]) + ymd[3]

\* Whether datetime.strptime(date_str, "%Y.%m.%d") raises ValueError.
StrptimeFails(date_str) ==
  IF ~IsDateShaped(date_str) THEN TRUE
  ELSE LET OutOfRange(ymd) == \/ ymd[1] < 1
                               \/ ymd[2] \notin 1..12
                               \/ ymd[3] \notin 1..DaysInMonth(ymd[1], ymd[2])
       IN  OutOfRange(DateDigits[date_str])

\* datetime.strptime(date_str, "%Y.%m.%d") of a string it accepts, as an ordinal.
Strptime(date_str) == ToOrdinal(DateDigits[date_str])

\* (datetime.now() - verified_date).days: the time of day of now is floored away.
AgeDays(now, date_str) == Strptime(now) - Strptime(date_str)

\* An optional integer: << >> is Python's None, <<n>> the integer n.
NoInt == << >>
SomeInt(n) == <<n>>

\* _should_skip_verified with the age compared by < instead of <=.
ShouldSkipStrictAge(max_age_days, date_str, now) ==
  IF max_age_days = NoInt THEN TRUE
  ELSE IF max_age_days[1] = 0 THEN FALSE
  ELSE IF date_str = None THEN FALSE
  ELSE IF StrptimeFails(date_str) THEN FALSE
  ELSE AgeDays(now, date_str) < max_age_days[1]

\* _should_skip_verified with the ValueError handler answering True.
ShouldSkipInvalidDate(max_age_days, date_str, now) ==
  IF max_age_days = NoInt THEN TRUE
  ELSE IF max_age_days[1] = 0 THEN FALSE
  ELSE IF date_str = None THEN FALSE
  ELSE IF StrptimeFails(date_str) THEN TRUE
  ELSE AgeDays(now, date_str) <= max_age_days[1]

\* BibVerifier._should_skip_verified with self.max_age_days = max_age_days and
\* datetime.now() falling on the day now.
ShouldSkipVerified(max_age_days, date_str, now) ==
  IF max_age_days = NoInt THEN TRUE
  ELSE IF max_age_days[1] = 0 THEN FALSE
  ELSE IF date_str = None THEN FALSE
  ELSE IF StrptimeFails(date_str) THEN FALSE
  ELSE AgeDays(now, date_str) <= max_age_days[1]

(***************************************************************************)
(* Annotation lines.  A line is a sequence of atoms such as                *)
(*   << "%", " ", "paper_id:", " ", "DOI:10.1/x", ",", " ", "verified",    *)
(*      " ", "via", " ", "human", " ", "(", "2024.03.01", ")" >>           *)
(* The patterns below are the program's regular expressions with one       *)
(* element per atom class; letter case of the keywords is not varied.      *)
(***************************************************************************)
Lit(a) == [t |-> "lit", v |-> a]
WsStar == [t |-> "ws*", v |-> ""]
WsPlus == [t |-> "ws+", v |-> ""]
NonWsPlus == [t |-> "S+", v |-> ""]
DateTok == [t |-> "date", v |-> ""]
AnyStar == [t |-> "any*", v |-> ""]

\* Whether pat[i..] matches s[j..] up to the end of s.
RECURSIVE MatchFrom(_, _, _, _)
MatchFrom(pat, i, s, j) ==
  IF i > Len(pat) THEN j = Len(s) + 1
  ELSE CASE pat[i].t = "lit" ->
              j <= Len(s) /\ s[j] = pat[i].v /\ MatchFrom(pat, i + 1, s, j + 1)
         [] pat[i].t = "date" ->
              j <= Len(s) /\ IsDateShaped(s[j]) /\ MatchFrom(pat, i + 1, s, j + 1)
         [] pat[i].t = "ws*" ->
              \E k \in j..(Len(s) + 1) :
                 (\A m \in j..(k - 1) : s[m] = " ") /\ MatchFrom(pat, i + 1, s, k)
         [] pat[i].t = "ws+" ->
              \E k \in (j + 1)..(Len(s) + 1) :
                 (\A m \in j..(k - 1) : s[m] = " ") /\ MatchFrom(pat, i + 1, s, k)
         [] pat[i].t = "any*" ->
              \E k \in j..(Len(s) + 1) : MatchFrom(pat, i + 1, s, k)
         [] pat[i].t = "S+" ->
              \E k \in (j + 1)..(Len(s) + 1) :
                 (\A m \in j..(k - 1) : s[m] # " ") /\ MatchFrom(pat, i + 1, s, k)

\* ^%\s*paper_id:\s*
PaperIdHead == << Lit("%"), WsStar, Lit("paper_id:"), WsStar >>

\* ,\s*verified\s+via\s+(\S+)\s*\((\d{4}\.\d{2}\.\d{2})\)$
VerifiedTail ==
  << Lit(","), WsStar, Lit("verified"), WsPlus, Lit("via"), WsPlus, NonWsPlus,
     WsStar, Lit("("), DateTok, Lit(")") >>

\* ,\s*verified\s+via\s+\S+\s*$
MissingDateTail ==
  << Lit(","), WsStar, Lit("verified"), WsPlus, Lit("via"), WsPlus, NonWsPlus, WsStar >>

\* The places a..b of line that group 1, (\S+?), can take: after the head, all
\* non-blank, and followed by the verified tail or by the end of the line.
IdSpans(line) ==
  { ab \in { a \in 1..Len(line) : MatchFrom(PaperIdHead, 1, Slice(line, 1, a - 1), 1) }
           \X (1..Len(line)) :
      /\ ab[1] <= ab[2]
      /\ \A m \in ab[1]..ab[2] : line[m] # " "
      /\ \/ ab[2] = Len(line)
         \/ MatchFrom(VerifiedTail, 1, Slice(line, ab[2] + 1, Len(line)), 1) }

\* PAPER_ID_PATTERN.match(line): whether it matches, and the groups (paper_id,
\* verifier, date).  The lazy group 1 takes the shortest span; group 2 is reported
\* only as present or absent, which is all the program reads of it.
PaperIdMatch(line) ==
  LET Groups(spans) ==
        IF spans = {}
        THEN [matched |-> FALSE, paper_id |-> << >>, verifier |-> None, date |-> None]
        ELSE LET ab == CHOOSE x \in spans : \A y \in spans : x[2] <= y[2]
                 full == ab[2] < Len(line)
             IN  [ matched |-> TRUE,
                   paper_id |-> SubSeq(line, ab[1], ab[2]),
                   verifier |-> IF full THEN "present" ELSE None,
                   date     |-> IF full THEN line[Len(line) - 1] ELSE None ]
  IN  Groups(IdSpans(line))

\* MISSING_DATE_PATTERN.match(line)
MissingDateMatch(line) ==
  MatchFrom(PaperIdHead \o <<NonWsPlus>> \o MissingDateTail, 1, line, 1)

\* parser.get_entry_comments: the comment lines in front of the entry.  The file
\* content is modelled as a function from entry key to a record: comments, that
\* block of lines, and fixed, the names of the fields of the entry rewritten.
GetEntryComments(content, entry_key) == content[entry_key].comments

\* The first line of a block that PAPER_ID_PATTERN matches, 0 when none does.
FirstPaperIdLine(block) ==
  LET First(hits) == IF hits = {} THEN 0 ELSE CHOOSE i \in hits : \A j \in hits : i <= j
  IN  First({ i \in 1..Len(block) : PaperIdMatch(Strip(block[i])).matched })

\* parser.is_entry_verified: (is_verified, date_str, paper_id)
IsEntryVerified(content, entry_key) ==
  LET Groups(m) == [ is_verified |-> m.verifier # None /\ m.date # None,
                     date_str |-> m.date, paper_id |-> m.paper_id ]
      At(block, i) == IF block = << >> \/ i = 0
                      THEN [is_verified |-> FALSE, date_str |-> None, paper_id |-> << >>]
                      ELSE Groups(PaperIdMatch(Strip(block[i])))
  IN  At(GetEntryComments(content, entry_key),
         FirstPaperIdLine(GetEntryComments(content, entry_key)))

\* parser.has_missing_date
HasMissingDate(content, entry_key) ==
  \E i \in 1..Len(GetEntryComments(content, entry_key)) :
     MissingDateMatch(Strip(GetEntryComments(content, entry_key)[i]))

\* parser.extract_paper_id_from_comments
ExtractPaperIdFromComments(content, entry_key) ==
  LET At(block, i) ==
        IF block = << >> \/ i = 0 THEN << >> ELSE PaperIdMatch(Strip(block[i])).paper_id
  IN  At(GetEntryComments(content, entry_key),
         FirstPaperIdLine(GetEntryComments(content, entry_key)))

\* "v" + bibtools.__version__: one atom, a version string holds no blank.
VersionAtom == "v0.0.0.dev0"

\* parser.generate_verification_comment, with date.today() = today.
GenerateVerificationComment(paper_id, include_verified, today) ==
  IF include_verified
  THEN << "%", " ", "paper_id:", " " >> \o paper_id
       \o << ",", " ", "verified", " ", "via", " ", "bibtools", " ", VersionAtom,
             " ", "(", today, ")" >>
  ELSE << "%", " ", "paper_id:", " " >> \o paper_id

(***************************************************************************)
(* models.py: VerificationStatus, VerificationResult, VerificationReport.   *)
(* A result keeps the fields the program reads; of a FieldMismatch only    *)
(* field_name is kept, and metadata only as present or absent.             *)
(***************************************************************************)
PASS == 0
WARNING == 1
FAIL == 2

\* VerificationResult(...) with the dataclass defaults for what is not given.
DefaultResult ==
  [ entry_key |-> 0, success |-> FALSE, message |-> "", already_verified |-> FALSE,
    needs_update |-> FALSE, no_paper_id |-> FALSE, paper_id_used |-> << >>,
    auto_found_paper_id |-> FALSE, paper_id_source |-> "", has_metadata |-> FALSE,
    mismatches |-> << >>, warnings |-> << >>, fixed |-> FALSE ]

\* VerificationResult.status
StatusIgnoringFixed(r) ==
  IF r.mismatches # << >> THEN FAIL
  ELSE IF ~r.success /\ ~r.already_verified /\ ~r.no_paper_id THEN FAIL
  ELSE IF r.warnings # << >> THEN WARNING
  ELSE IF r.no_paper_id THEN WARNING
  ELSE PASS

Status(r) ==
  IF r.mismatches # << >> /\ ~r.fixed THEN FAIL
  ELSE IF ~r.success /\ ~r.already_verified /\ ~r.no_paper_id THEN FAIL
  ELSE IF r.warnings # << >> THEN WARNING
  ELSE IF r.no_paper_id THEN WARNING
  ELSE PASS

\* VerificationReport()
EmptyReport ==
  [ total_entries |-> 0, verified |-> 0, verified_with_warnings |-> 0,
    already_verified |-> 0, failed |-> 0, no_paper_id |-> 0, fixed |-> 0,
    results |-> << >> ]

\* add_result counting a fixed result under its success category as well.
AddResultFixedToo(rep, result) ==
  LET r1 == [rep EXCEPT !.results = Append(@, result), !.total_entries = @ + 1]
      r2 == IF result.fixed /\ ~result.already_verified /\ ~result.no_paper_id
            THEN [r1 EXCEPT !.fixed = @ + 1] ELSE r1
  IN  IF result.already_verified THEN [r2 EXCEPT !.already_verified = @ + 1]
      ELSE IF result.no_paper_id THEN [r2 EXCEPT !.no_paper_id = @ + 1]
      ELSE IF result.success
           THEN IF result.warnings # << >>
                THEN [r2 EXCEPT !.verified_with_warnings = @ + 1]
                ELSE [r2 EXCEPT !.verified = @ + 1]
      ELSE [r2 EXCEPT !.failed = @ + 1]

\* VerificationReport.add_result
AddResult(rep, result) ==
  LET r1 == [rep EXCEPT !.results = Append(@, result), !.total_entries = @ + 1]
  IN  IF result.already_verified THEN [r1 EXCEPT !.already_verified = @ + 1]
      ELSE IF result.no_paper_id THEN [r1 EXCEPT !.no_paper_id = @ + 1]
      ELSE IF result.fixed THEN [r1 EXCEPT !.fixed = @ + 1]
      ELSE IF result.success
           THEN IF result.warnings # << >>
                THEN [r1 EXCEPT !.verified_with_warnings = @ + 1]
                ELSE [r1 EXCEPT !.verified = @ + 1]
      ELSE [r1 EXCEPT !.failed = @ + 1]

\* VerificationReport.overall_status
OverallStatus(rep) ==
  IF rep.failed > 0 THEN FAIL
  ELSE IF rep.verified_with_warnings > 0 \/ rep.no_paper_id > 0 THEN WARNING
  ELSE PASS

\* VerificationReport.exit_code: int(overall_status) of the IntEnum.
ExitCode(rep) == OverallStatus(rep)

(***************************************************************************)
(* utils.py and venue_aliases.py: the field comparators.  Titles and       *)
(* author names are atom sequences in which markup ("{", "}", "$", a LaTeX *)
(* command) is an atom of its own; venue names are sequences of single     *)
(* characters, because venues_match tests substrings inside words.         *)
(***************************************************************************)
UpperToLower ==
  [ a \in {"Deep", "Learning", "DEEP", "arXiv", "A", "C", "L", "N", "R", "I", "P", "S", "X", "O"} |->
      CASE a = "Deep" -> "deep" [] a = "DEEP" -> "deep" [] a = "Learning" -> "learning"
        [] a = "arXiv" -> "arxiv"
        [] a = "A" -> "a" [] a = "C" -> "c" [] a = "L" -> "l" [] a = "N" -> "n"
        [] a = "R" -> "r" [] a = "I" -> "i" [] a = "P" -> "p" [] a = "S" -> "s"
        [] a = "X" -> "x" [] a = "O" -> "o" ]

LowerAtom(a) == IF a \in DOMAIN UpperToLower THEN UpperToLower[a] ELSE a

\* str.lower()
Lower(s) == [ i \in 1..Len(s) |-> LowerAtom(s[i]) ]

\* strip_latex_braces
StripLatexBraces(title) == NormalizeWhitespace(RemoveAtoms(title, {"{", "}", "$"}))

\* compare_titles comparing the stripped titles in their own letter case.
CompareTitlesCaseSensitive(bib_title, ss_title) ==
  IF bib_title = ss_title THEN [match |-> TRUE, warning_only |-> FALSE]
  ELSE IF StripLatexBraces(bib_title) = StripLatexBraces(ss_title)
       THEN [match |-> TRUE, warning_only |-> TRUE]
       ELSE [match |-> FALSE, warning_only |-> FALSE]

\* compare_titles: (match, warning_only)
CompareTitles(bib_title, ss_title) ==
  IF bib_title = ss_title THEN [match |-> TRUE, warning_only |-> FALSE]
  ELSE IF Lower(StripLatexBraces(bib_title)) = Lower(StripLatexBraces(ss_title))
       THEN [match |-> TRUE, warning_only |-> TRUE]
       ELSE [match |-> FALSE, warning_only |-> FALSE]

LatexCommands == {"\\textbf", "\\emph"}

\* normalize_author_name
NormalizeAuthorName(name) ==
  LET Reorder(n, c) ==
        IF c = 0 THEN n
        ELSE Strip(Slice(n, c + 1, Len(n))) \o <<" ">> \o Strip(Slice(n, 1, c - 1))
      AtComma(n) == Reorder(n, FirstIn(n, {","}))
  IN  AtComma(NormalizeWhitespace(RemoveAtoms(RemoveAtoms(name, LatexCommands), {"{", "}"})))

IsAnd(a) == a \in {"and", "And", "AND"}

\* Where the first separator \s+and\s+ of re.split begins and ends in s, from
\* position i on; <<0, 0>> when there is none.
RECURSIVE FindAnd(_, _)
FindAnd(s, i) ==
  IF i > Len(s) THEN <<0, 0>>
  ELSE IF IsAnd(s[i]) /\ i > 1 /\ i < Len(s) /\ s[i-1] = " " /\ s[i+1] = " "
       THEN LET b == CHOOSE k \in 1..(i-1) :
                       /\ \A j \in k..(i-1) : s[j] = " "
                       /\ (k = 1 \/ s[k-1] # " ")
                e == CHOOSE k \in (i+1)..Len(s) :
                       /\ \A j \in (i+1)..k : s[j] = " "
                       /\ (k = Len(s) \/ s[k+1] # " ")
            IN  <<b, e>>
       ELSE FindAnd(s, i + 1)

\* re.split(r"\s+and\s+", s, flags=re.IGNORECASE)
RECURSIVE SplitAnd(_)
SplitAnd(s) ==
  LET be == FindAnd(s, 1)
  IN  IF be[1] = 0 THEN <<s>>
      ELSE <<Slice(s, 1, be[1] - 1)>> \o SplitAnd(Slice(s, be[2] + 1, Len(s)))

RECURSIVE StripNonEmpty(_)
StripNonEmpty(parts) ==
  IF parts = << >> THEN << >>
  ELSE IF Strip(Head(parts)) = << >> THEN StripNonEmpty(Tail(parts))
       ELSE <<Strip(Head(parts))>> \o StripNonEmpty(Tail(parts))

\* parse_bibtex_authors
ParseBibtexAuthors(author_field) ==
  IF author_field = << >> THEN << >> ELSE StripNonEmpty(SplitAnd(author_field))

\* format_author_bibtex_style writing the given name first.
FormatAuthorGivenFirst(given, family) == given \o <<" ">> \o family

\* format_author_bibtex_style
FormatAuthorBibtexStyle(given, family) == family \o <<",", " ">> \o given

\* compare_authors comparing the two lists of names whatever their order.
CompareAuthorsUnordered(bib_author_field, ss_authors) ==
  LET Compare(ss_author_str, bib_authors) ==
        IF bib_author_field = ss_author_str THEN [match |-> TRUE, warning_only |-> FALSE]
        ELSE IF Len(bib_authors) # Len(ss_authors)
             THEN [match |-> FALSE, warning_only |-> FALSE]
        ELSE IF { NormalizeAuthorName(bib_authors[i]) : i \in 1..Len(bib_authors) }
                  # { NormalizeAuthorName(ss_authors[i]) : i \in 1..Len(ss_authors) }
             THEN [match |-> FALSE, warning_only |-> FALSE]
        ELSE [match |-> TRUE, warning_only |-> TRUE]
  IN  Compare(Join(ss_authors, <<" ", "and", " ">>), ParseBibtexAuthors(bib_author_field))

\* compare_authors: (match, warning_only)
CompareAuthors(bib_author_field, ss_authors) ==
  LET Compare(ss_author_str, bib_authors) ==
        IF bib_author_field = ss_author_str THEN [match |-> TRUE, warning_only |-> FALSE]
        ELSE IF Len(bib_authors) # Len(ss_authors)
             THEN [match |-> FALSE, warning_only |-> FALSE]
        ELSE IF \E i \in 1..Len(bib_authors) :
                  NormalizeAuthorName(bib_authors[i]) # NormalizeAuthorName(ss_authors[i])
             THEN [match |-> FALSE, warning_only |-> FALSE]
        ELSE [match |-> TRUE, warning_only |-> TRUE]
  IN  Compare(Join(ss_authors, <<" ", "and", " ">>), ParseBibtexAuthors(bib_author_field))

\* VENUE_ALIASES, restricted to the rows whose aliases occur inside a venue
\* name of VenuePool; no alias of another row is a substring of those names.
VENUE_ALIASES ==
  { [ canonical |-> <<"C","o","R","L">>, aliases |-> { <<"c","o","r","l">> } ],
    [ canonical |-> <<"A","C","L">>, aliases |-> { <<"a","c","l">> } ],
    [ canonical |-> <<"N","A","A","C","L">>, aliases |-> { <<"n","a","a","c","l">> } ],
    [ canonical |-> <<"a","r","X","i","v">>,
      aliases |-> { <<"a","r","x","i","v">>,
                    <<"a","r","x","i","v"," ","p","r","e","p","r","i","n","t">> } ] }

\* normalize_venue
NormalizeVenue(venue) == Strip(Lower(venue))

\* get_canonical_venue: << >> stands for None.
GetCanonicalVenue(venue) ==
  LET Canonical(rows) == IF rows = {} THEN << >> ELSE (CHOOSE row \in rows : TRUE).canonical
  IN  Canonical({ row \in VENUE_ALIASES : NormalizeVenue(venue) \in row.aliases })

\* venues_match
VenuesMatch(venue1, venue2) ==
  LET Match(norm1, norm2, canonical1, canonical2) ==
        IF norm1 = norm2 THEN TRUE
        ELSE IF canonical1 # << >> /\ canonical2 # << >> THEN canonical1 = canonical2
        ELSE IF canonical1 # << >> /\ Contains(norm2, Lower(canonical1)) THEN TRUE
        ELSE IF canonical2 # << >> /\ Contains(norm1, Lower(canonical2)) THEN TRUE
        ELSE \E row \in VENUE_ALIASES :
               /\ \E a \in row.aliases : Contains(norm1, a)
               /\ \E a \in row.aliases : Contains(norm2, a)
  IN  Match(NormalizeVenue(venue1), NormalizeVenue(venue2),
            GetCanonicalVenue(venue1), GetCanonicalVenue(venue2))

\* compare_venues: (match, warning_only)
CompareVenues(bib_venue, ss_venue) ==
  IF bib_venue = ss_venue THEN [match |-> TRUE, warning_only |-> FALSE]
  ELSE IF VenuesMatch(bib_venue, ss_venue) THEN [match |-> TRUE, warning_only |-> TRUE]
  ELSE [match |-> FALSE, warning_only |-> FALSE]

\* int(bib_year): the year atoms that parse, with their value.
YearDigits == [ a \in {"2023", "2024"} |-> IF a = "2023" THEN 2023 ELSE 2024 ]

IntFails(text) == ~(Len(Strip(text)) = 1 /\ Strip(text)[1] \in DOMAIN YearDigits)

\* int(bib_year) reading every year as 2024.
IntOfAlways2024(text) == 2024

IntOf(text) == YearDigits[Strip(text)[1]]

(***************************************************************************)
(* verifier.py: BibVerifier._check_field_mismatches.  An entry is a record *)
(* of its bibtex fields, << >> for a field that is absent; metadata.year   *)
(* is 0 when the provider gave none.                                        *)
(***************************************************************************)
FieldCheck(name, present, cmp) ==
  [ mismatches |-> IF present /\ ~cmp.match THEN <<name>> ELSE << >>,
    warnings   |-> IF present /\ cmp.match /\ cmp.warning_only THEN <<name>> ELSE << >> ]

CheckFieldMismatches(entry, metadata) ==
  LET bib_venue == IF entry.journal # << >> THEN entry.journal ELSE entry.booktitle
      Collect(t, a, y, v) ==
        [ mismatches |-> t.mismatches \o a.mismatches \o y.mismatches \o v.mismatches,
          warnings   |-> t.warnings \o a.warnings \o y.warnings \o v.warnings ]
  IN  Collect(
        FieldCheck("title", entry.title # << >> /\ metadata.title # << >>,
                   CompareTitles(entry.title, metadata.title)),
        FieldCheck("author", entry.author # << >> /\ metadata.authors # << >>,
                   CompareAuthors(entry.author,
                                  [ i \in 1..Len(metadata.authors) |->
                                      FormatAuthorBibtexStyle(metadata.authors[i].given,
                                                              metadata.authors[i].family) ])),
        [ mismatches |->
            IF entry.year # << >> /\ metadata.year # 0 /\ ~IntFails(entry.year)
               /\ IntOf(entry.year) # metadata.year
            THEN <<"year">> ELSE << >>,
          warnings |-> << >> ],
        FieldCheck("venue", bib_venue # << >> /\ metadata.venue # << >>,
                   CompareVenues(bib_venue, metadata.venue)))

(***************************************************************************)
(* semantic_scholar.py: the batch resolution of paper ids.                 *)
(***************************************************************************)
max_retries == 3
BATCH_SIZE == 500

\* SemanticScholarClient._request_with_retry.  behaviour[k] is what the server
\* does at attempt k: "ok", "429", or "err" (an error status or a transport
\* error, an httpx.HTTPError).  The outcome is "response", "HTTPError" (the
\* last attempt's error re-raised) or "ConnectionError" (raised after the loop).
RECURSIVE RequestWithRetryFrom(_, _)
RequestWithRetryFrom(behaviour, attempt) ==
  IF attempt >= max_retries THEN "ConnectionError"
  ELSE IF behaviour[attempt + 1] = "429" THEN RequestWithRetryFrom(behaviour, attempt + 1)
  ELSE IF behaviour[attempt + 1] = "ok" THEN "response"
  ELSE IF attempt < max_retries - 1 THEN RequestWithRetryFrom(behaviour, attempt + 1)
  ELSE "HTTPError"

RequestWithRetry(behaviour) == RequestWithRetryFrom(behaviour, 0)

\* ResolvedIds | None: found = FALSE stands for None.
NotResolved ==
  [ found |-> FALSE, paper_id |-> << >>, doi |-> << >>, arxiv_id |-> << >>,
    dblp_id |-> << >>, venue |-> << >>, title |-> << >> ]

\* SemanticScholarClient._parse_resolved_ids.  data is one element of the
\* batch answer: isnull for a JSON null, absent fields as << >>.
ParseResolvedIds(data) ==
  IF data.isnull THEN NotResolved
  ELSE IF data.paperId = << >> THEN NotResolved
  ELSE [ found |-> TRUE, paper_id |-> data.paperId,
         doi |-> IF data.DOI # << >> /\ Contains(Lower(data.DOI), <<"arxiv">>)
                 THEN << >> ELSE data.DOI,
         arxiv_id |-> data.ArXiv, dblp_id |-> data.DBLP,
         venue |-> data.venue, title |-> data.title ]

\* The chunks paper_ids[i : i + _BATCH_SIZE] of resolve_ids_batch.
NumChunks(paper_ids) == (Len(paper_ids) + BATCH_SIZE - 1) \div BATCH_SIZE

Chunk(paper_ids, c) ==
  Slice(paper_ids, (c - 1) * BATCH_SIZE + 1,
        IF c * BATCH_SIZE < Len(paper_ids) THEN c * BATCH_SIZE ELSE Len(paper_ids))

\* _resolve_ids_batch_single pairing each identifier with the element after
\* the one at its position.
ResolveIdsBatchSingleShifted(batch, outcome, data) ==
  IF outcome = "HTTPError" THEN { <<batch[i], NotResolved>> : i \in 1..Len(batch) }
  ELSE { <<batch[i], ParseResolvedIds(data[IF i < Len(batch) THEN i + 1 ELSE i])>> :
           i \in { k \in 1..Len(batch) : \A j \in (k+1)..Len(batch) : batch[j] # batch[k] } }

\* SemanticScholarClient._resolve_ids_batch_single: the result dict as a set
\* of <<paper_id, resolved>> pairs in which a later position wins.
ResolveIdsBatchSingle(batch, outcome, data) ==
  IF outcome = "HTTPError" THEN { <<batch[i], NotResolved>> : i \in 1..Len(batch) }
  ELSE { <<batch[i], ParseResolvedIds(data[i])>> :
           i \in { k \in 1..Len(batch) : \A j \in (k+1)..Len(batch) : batch[j] # batch[k] } }

\* SemanticScholarClient.resolve_ids_batch / MetadataFetcher.resolve_batch.
\* outcomes[c] is the outcome of the request of chunk c, data[c] its answer.
\* raised: a chunk's ConnectionError is not caught and leaves the call.
ResolveIdsBatch(paper_ids, outcomes, data) ==
  LET n == NumChunks(paper_ids)
      ids == { paper_ids[i] : i \in 1..Len(paper_ids) }
      \* <<c, paper_id, resolved>>: batch_results of chunk c has the pair.
      updates == UNION { { <<c, pr[1], pr[2]>> :
                             pr \in ResolveIdsBatchSingle(Chunk(paper_ids, c),
                                                          outcomes[c], data[c]) } :
                         c \in 1..n }
      \* results.update(batch_results), chunk after chunk: the last chunk wins.
      Last(id) == CHOOSE u \in updates :
                    /\ u[2] = id
                    /\ \A v \in updates : v[2] = id => v[1] <= u[1]
  IN  [ raised |-> \E c \in 1..n : outcomes[c] = "ConnectionError",
        map |-> [ id \in ids |-> Last(id)[3] ] ]

(***************************************************************************)
(* fetcher.py: MetadataFetcher._fetch_with_resolved.  A provider's answer  *)
(* is a record: kind "raise" (the client raised its error), "none" (the    *)
(* client returned None) or "meta" (a record was returned).  answers maps  *)
(* each provider to the answer it would give if it were asked.             *)
(***************************************************************************)
NoMetadata ==
  [ found |-> FALSE, title |-> << >>, authors |-> << >>, year |-> 0, venue |-> << >>,
    source |-> "" ]

\* MetadataFetcher._is_arxiv_venue
IsArxivVenue(venue) ==
  IF venue = << >> THEN TRUE
  ELSE \/ Contains(Lower(venue), <<"a","r","x","i","v">>)
       \/ Lower(venue) \in { << >>, <<"c","o","r","r">> }

\* The PaperMetadata built from a client's record; ArxivMetadata.venue is
\* always "arXiv".
PaperMetadataOf(answer, source) ==
  [ found |-> TRUE, title |-> answer.title, authors |-> answer.authors,
    year |-> answer.year,
    venue |-> IF source = "arxiv" THEN <<"a","r","X","i","v">> ELSE answer.venue,
    source |-> source ]

\* DBLPClient._parse_info on the hit search_by_title picked: an info without
\* title gives None.  (CrossRefClient._parse_metadata has no such test: a
\* message without title gives a record with title "".)
DblpParseInfo(answer) ==
  IF answer.kind = "meta" /\ answer.title = << >>
  THEN [ answer EXCEPT !.kind = "none", !.authors = << >>, !.year = 0 ]
  ELSE answer

\* _fetch_with_resolved falling through to DBLP when CrossRef has no record.
FetchWithFallThrough(resolved, answers) ==
  IF resolved.doi # << >> /\ answers["crossref"].kind # "none"
  THEN [ queried |-> <<"crossref">>, raised |-> answers["crossref"].kind = "raise",
         metadata |-> IF answers["crossref"].kind = "meta"
                      THEN PaperMetadataOf(answers["crossref"], "crossref")
                      ELSE NoMetadata ]
  ELSE LET before == IF resolved.doi # << >> THEN <<"crossref">> ELSE << >>
       IN  IF ~IsArxivVenue(resolved.venue)
           THEN IF resolved.title # << >>
                THEN [ queried |-> before \o <<"dblp">>,
                       raised |-> answers["dblp"].kind = "raise",
                       metadata |-> IF DblpParseInfo(answers["dblp"]).kind = "meta"
                                    THEN PaperMetadataOf(answers["dblp"], "dblp")
                                    ELSE NoMetadata ]
                ELSE [ queried |-> before, raised |-> FALSE, metadata |-> NoMetadata ]
           ELSE IF resolved.arxiv_id # << >>
           THEN [ queried |-> before \o <<"arxiv">>,
                  raised |-> answers["arxiv"].kind = "raise",
                  metadata |-> IF answers["arxiv"].kind = "meta"
                               THEN PaperMetadataOf(answers["arxiv"], "arxiv")
                               ELSE NoMetadata ]
           ELSE [ queried |-> before, raised |-> FALSE, metadata |-> NoMetadata ]

\* queried: the providers that were sent a request, in order.
FetchWithResolved(resolved, answers) ==
  IF resolved.doi # << >>
  THEN [ queried |-> <<"crossref">>, raised |-> answers["crossref"].kind = "raise",
         metadata |-> IF answers["crossref"].kind = "meta"
                      THEN PaperMetadataOf(answers["crossref"], "crossref")
                      ELSE NoMetadata ]
  ELSE IF ~IsArxivVenue(resolved.venue)
  THEN IF resolved.title # << >>
       THEN [ queried |-> <<"dblp">>, raised |-> answers["dblp"].kind = "raise",
              metadata |-> IF DblpParseInfo(answers["dblp"]).kind = "meta"
                           THEN PaperMetadataOf(answers["dblp"], "dblp")
                           ELSE NoMetadata ]
       ELSE [ queried |-> << >>, raised |-> FALSE, metadata |-> NoMetadata ]
  ELSE IF resolved.arxiv_id # << >>
  THEN [ queried |-> <<"arxiv">>, raised |-> answers["arxiv"].kind = "raise",
         metadata |-> IF answers["arxiv"].kind = "meta"
                      THEN PaperMetadataOf(answers["arxiv"], "arxiv")
                      ELSE NoMetadata ]
  ELSE [ queried |-> << >>, raised |-> FALSE, metadata |-> NoMetadata ]

(***************************************************************************)
(* verifier.py: cross-check, result building.                              *)
(***************************************************************************)
\* f"{given} {family}".strip()
GivenFamily(a) == Strip(a.given \o <<" ">> \o a.family)

NormalizedAuthors(authors) ==
  [ i \in 1..Len(authors) |-> NormalizeAuthorName(GivenFamily(authors[i])) ]

\* _check_arxiv_cross_match comparing only how many authors each side has.
CheckArxivCrossMatchByCount(arxiv_answer, metadata) ==
  IF arxiv_answer.kind = "raise" THEN FALSE
  ELSE IF arxiv_answer.kind = "none" THEN FALSE
  ELSE Len(arxiv_answer.authors) # Len(metadata.authors)

\* BibVerifier._check_arxiv_cross_match: TRUE when a mismatch message is
\* returned.  arxiv_answer is what the arXiv client does when asked.
CheckArxivCrossMatch(arxiv_answer, metadata) ==
  IF arxiv_answer.kind = "raise" THEN FALSE
  ELSE IF arxiv_answer.kind = "none" THEN FALSE
  ELSE NormalizedAuthors(arxiv_answer.authors) # NormalizedAuthors(metadata.authors)

\* The VerificationResult of _verify_entry_with_resolved before any fetch.
ResultFor(entry, paper_id, source, auto_found) ==
  [ DefaultResult EXCEPT !.entry_key = entry.ID, !.paper_id_used = paper_id,
                         !.auto_found_paper_id = auto_found, !.paper_id_source = source ]

\* BibVerifier._build_verification_result
BuildVerificationResult(cfg, entry, paper_id, source, auto_found, mismatches, warnings) ==
  LET base == [ ResultFor(entry, paper_id, source, auto_found) EXCEPT !.has_metadata = TRUE ]
  IN  IF mismatches # << >>
      THEN IF cfg.fix_mismatches
           THEN [ base EXCEPT !.success = TRUE, !.message = "Fixed and verified",
                              !.mismatches = mismatches, !.warnings = warnings,
                              !.fixed = TRUE, !.needs_update = TRUE ]
           ELSE [ base EXCEPT !.success = FALSE, !.message = "Field mismatch",
                              !.mismatches = mismatches, !.warnings = warnings ]
      ELSE [ base EXCEPT !.success = TRUE,
                         !.message = IF warnings # << >> THEN "Verified (warning)"
                                     ELSE "Verified",
                         !.warnings = warnings, !.needs_update = TRUE ]

\* parser.extract_paper_id_from_entry: (paper_id, source); << >> and "" stand
\* for None.  The levels "id" and "title" both read the doi and eprint fields.
ExtractPaperIdFromEntry(entry, content, auto_find_level) ==
  LET doi    == RemoveAtoms(entry.doi, {"https://doi.org/", "http://doi.org/"})
      eprint == Strip(RemoveAtoms(entry.eprint, {"arXiv:"}))
      Extract(from_comment) ==
        IF from_comment # << >> THEN [paper_id |-> from_comment, source |-> "comment"]
        ELSE IF auto_find_level = "none" THEN [paper_id |-> << >>, source |-> ""]
        ELSE IF entry.doi # << >> THEN [paper_id |-> <<"DOI:">> \o doi, source |-> "doi"]
        ELSE IF entry.eprint # << >>
             THEN [paper_id |-> <<"ARXIV:">> \o eprint, source |-> "eprint"]
        ELSE [paper_id |-> << >>, source |-> ""]
  IN  Extract(ExtractPaperIdFromComments(content, entry.ID))

\* utils.title_similarity, in percent.  SequenceMatcher.ratio() is 1 for equal
\* strings and 0 for strings with no character in common; the titles the model
\* compares are of one of these two kinds.
TitleSimilarity(title1, title2) ==
  LET Ratio(t1, t2) == CASE t1 = t2 -> 100
                         [] t1 # t2 /\ Range(t1) \cap Range(t2) = {} -> 0
  IN  Ratio(Lower(StripLatexBraces(title1)), Lower(StripLatexBraces(title2)))

\* The loop of _search_by_title_for_id over resolved_list[i..]: best is the
\* best score so far and the position that has it (0 for None).
RECURSIVE BestMatchFrom(_, _, _, _)
BestMatchFrom(title, resolved_list, i, best) ==
  IF i > Len(resolved_list) THEN best
  ELSE IF resolved_list[i].title # << >>
          /\ TitleSimilarity(title, resolved_list[i].title) > best.score
       THEN BestMatchFrom(title, resolved_list, i + 1,
                          [ score |-> TitleSimilarity(title, resolved_list[i].title),
                            index |-> i ])
       ELSE BestMatchFrom(title, resolved_list, i + 1, best)

\* BibVerifier._search_by_title_for_id: (paper_id, source).  search is what
\* s2_client.search_by_title does: raised (a ConnectionError) or the list it
\* returns.  The threshold 0.85 is 85 percent.
SearchByTitleForId(entry, search) ==
  LET Pick(best) == IF best.score >= 85 /\ best.index # 0
                    THEN [ paper_id |-> search.list[best.index].paper_id,
                           source |-> "title" ]
                    ELSE [ paper_id |-> << >>, source |-> "" ]
  IN  IF entry.title = << >> THEN [ paper_id |-> << >>, source |-> "" ]
      ELSE IF search.raised THEN [ paper_id |-> << >>, source |-> "" ]
      ELSE IF search.list = << >> THEN [ paper_id |-> << >>, source |-> "" ]
      ELSE Pick(BestMatchFrom(entry.title, search.list, 1, [score |-> 0, index |-> 0]))

\* %\s*paper_id:\s*\S+[^\n]*\n? matched at the start of a comment line
ExistingPaperIdLine(line) ==
  MatchFrom(<< Lit("%"), WsStar, Lit("paper_id:"), WsStar, NonWsPlus, AnyStar >>, 1, line, 1)

RECURSIVE SelectLines(_, _)
SelectLines(block, keep) ==
  IF block = << >> THEN << >>
  ELSE IF Head(block) \in keep THEN <<Head(block)>> \o SelectLines(Tail(block), keep)
       ELSE SelectLines(Tail(block), keep)

\* BibVerifier._add_verification_comment
AddVerificationComment(content, entry, paper_id, include_verified, today) ==
  LET existing == content[entry.ID].comments
      cleaned  == SelectLines(existing, { l \in Range(existing) : ~ExistingPaperIdLine(l) })
      comment  == GenerateVerificationComment(paper_id, include_verified, today)
  IN  [ content EXCEPT ![entry.ID].comments = cleaned \o <<comment>> ]

\* BibVerifier._apply_field_fixes: the fields named by the mismatches get the
\* fetched text; the model records which fields were rewritten.
ApplyFieldFixes(content, entry, mismatches) ==
  [ content EXCEPT ![entry.ID].fixed = @ \cup Range(mismatches) ]

\* What the log holds for a provider that was not asked.
Unasked == [ kind |-> "unasked", authors |-> << >> ]

\* What the cross-check reads of the arXiv client's answer.
CrossAnswer(answer) == [ kind |-> answer.kind, authors |-> answer.authors ]

\* BibVerifier._verify_entry_with_resolved.  Besides the result: queried, the
\* providers the fetch sent a request to; metadata, what the fetch returned;
\* cross, what the arXiv client answered to the cross-check (Unasked when the
\* cross-check did not run).
VerifyEntryWithResolved(cfg, entry, paper_id, source, auto_found, resolved, answers) ==
  LET Build(fields) == BuildVerificationResult(cfg, entry, paper_id, source, auto_found,
                                               fields.mismatches, fields.warnings)
      Verify(base, fetch, checks) ==
        IF ~resolved.found
        THEN [ result |-> [base EXCEPT !.message = "Paper not found"],
               queried |-> << >>, metadata |-> NoMetadata, cross |-> Unasked ]
        ELSE IF fetch.raised
        THEN [ result |-> [base EXCEPT !.message = "API error"],
               queried |-> fetch.queried, metadata |-> NoMetadata, cross |-> Unasked ]
        ELSE IF ~fetch.metadata.found
        THEN [ result |-> [base EXCEPT !.message = "Paper not found"],
               queried |-> fetch.queried, metadata |-> NoMetadata, cross |-> Unasked ]
        ELSE IF checks /\ CheckArxivCrossMatch(answers["arxiv"], fetch.metadata)
        THEN [ result |-> [base EXCEPT !.message = "arXiv cross-check failed",
                                       !.has_metadata = TRUE],
               queried |-> fetch.queried, metadata |-> fetch.metadata,
               cross |-> CrossAnswer(answers["arxiv"]) ]
        ELSE [ result |-> Build(CheckFieldMismatches(entry, fetch.metadata)),
               queried |-> fetch.queried, metadata |-> fetch.metadata,
               cross |-> IF checks THEN CrossAnswer(answers["arxiv"]) ELSE Unasked ]
      Fetched(fetch) ==
        Verify(ResultFor(entry, paper_id, source, auto_found), fetch,
               cfg.arxiv_check /\ resolved.arxiv_id # << >> /\ fetch.metadata.source # "arxiv")
  IN  Fetched(FetchWithResolved(resolved, answers))

\* The write-back marking every written entry as verified.
WriteBackAlwaysVerified(cfg, updated, entry, result, today) ==
  IF result.success /\ result.needs_update /\ result.has_metadata
     /\ result.paper_id_used # << >>
  THEN LET fixed_content == IF result.fixed /\ result.mismatches # << >>
                            THEN ApplyFieldFixes(updated, entry, result.mismatches)
                            ELSE updated
       IN  AddVerificationComment(fixed_content, entry, result.paper_id_used, TRUE, today)
  ELSE updated

\* BibVerifier.verify_file, the write-back after an entry's result: the content
\* as updated for that entry.
WriteBack(cfg, updated, entry, result, today) ==
  IF result.success /\ result.needs_update /\ result.has_metadata
     /\ result.paper_id_used # << >>
  THEN LET fixed_content == IF result.fixed /\ result.mismatches # << >>
                            THEN ApplyFieldFixes(updated, entry, result.mismatches)
                            ELSE updated
           is_pass == result.warnings = << >>
           include_verified == is_pass \/ cfg.mark_warnings_verified
       IN  AddVerificationComment(fixed_content, entry, result.paper_id_used,
                                  include_verified, today)
  ELSE updated

(***************************************************************************)
(* The inputs of a run: the files, the configurations, and what the        *)
(* services answer.                                                         *)
(***************************************************************************)
MaxEntries == 2

TitleText == <<"Deep", " ", "Learning">>
AuthorText == <<"Smith", ",", " ", "John">>
ACL == <<"A", "C", "L">>
PaperId == <<"DOI:", "10.1/x">>

NoteLine == <<"%", " ", "note">>
BareLine == <<"%", " ", "paper_id:", " ">> \o PaperId
VerifiedLine(date) ==
  BareLine \o <<",", " ", "verified", " ", "via", " ", "human", " ", "(", date, ")">>
MissingDateLine == BareLine \o <<",", " ", "verified", " ", "via", " ", "human">>
\* The annotation an earlier run of the program wrote.
ToolLine == GenerateVerificationComment(PaperId, TRUE, "2024.03.01")

\* What a file holds for an entry: kind names the annotation in front of it and
\* the identifier fields it has.  A kind that is a date stands for an entry
\* annotated as verified on that date.
EntryKinds == {"doi", "eprint", "bare", "verified", "missing", "plain", "tool"}

CommentsOf(kind) ==
  CASE kind = "bare" -> <<NoteLine, BareLine>>
    [] kind = "verified" -> <<VerifiedLine("2024.03.01")>>
    [] kind \in DOMAIN DateDigits -> <<VerifiedLine(kind)>>
    [] kind = "missing" -> <<MissingDateLine>>
    [] kind = "tool" -> <<ToolLine>>
    [] OTHER -> << >>

EntryOf(kind, key) ==
  [ ID |-> key,
    doi |-> IF kind \in {"doi", "verified"} THEN <<"https://doi.org/", "10.1/x">> ELSE << >>,
    eprint |-> IF kind \in {"doi", "eprint", "missing"}
               THEN <<"arXiv:", "2106.09685">> ELSE << >>,
    title |-> TitleText, author |-> AuthorText, year |-> <<"2024">>,
    journal |-> IF kind = "eprint" THEN <<"a","r","X","i","v">> ELSE << >>,
    booktitle |-> IF kind = "eprint" THEN << >> ELSE ACL ]

Files == UNION { [1..n -> EntryKinds] : n \in 1..MaxEntries }

\* The settings of a run: every combination of the three switches under
\* identifier discovery from the fields, and the default switches without it
\* and with the title search.
\* Verified entries are skipped whatever their age (the CLI's default).
Configs ==
  { c \in [ skip_verified : {TRUE}, max_age_days : {NoInt},
            auto_find_level : {"none", "id", "title"}, fix_mismatches : BOOLEAN,
            arxiv_check : BOOLEAN, mark_warnings_verified : BOOLEAN ] :
      c.auto_find_level \in {"none", "title"} =>
        (~c.fix_mismatches /\ c.arxiv_check /\ ~c.mark_warnings_verified) }

\* Elements of the answer of POST /paper/batch.
RawData(paperId, DOI, ArXiv, venue, title) ==
  [ isnull |-> FALSE, paperId |-> paperId, DOI |-> DOI, ArXiv |-> ArXiv,
    DBLP |-> << >>, venue |-> venue, title |-> title ]

\* A JSON null: the service does not know the id.
NullData == [ RawData(<< >>, << >>, << >>, << >>, << >>) EXCEPT !.isnull = TRUE ]

RawPool ==
  { NullData,
    RawData(<< >>, <<"10.1/x">>, << >>, ACL, TitleText),
    RawData(<<"p1">>, <<"10.1/x">>, <<"2106.09685">>, ACL, TitleText),
    RawData(<<"p1">>, <<"10.48550/", "arXiv", ".2106.09685">>, <<"2106.09685">>,
            <<"a","r","X","i","v">>, TitleText),
    RawData(<<"p1">>, << >>, <<"2106.09685">>, ACL, TitleText),
    RawData(<<"p1">>, << >>, << >>, ACL, << >>),
    RawData(<<"p1">>, << >>, << >>, << >>, TitleText) }

Author(given, family) == [given |-> given, family |-> family]

Answer(kind, title, authors, year) ==
  [ kind |-> kind, title |-> title, authors |-> authors, year |-> year, venue |-> ACL ]

\* What a provider does when asked: raise, answer that it has nothing, or
\* answer with a record that agrees with the entry, differs in style, differs
\* in content, or has no title.
AnswerPool ==
  { Answer("raise", << >>, << >>, 0),
    Answer("meta", << >>, <<Author(<<"John">>, <<"Smith">>)>>, 2024),
    Answer("none", << >>, << >>, 0),
    Answer("meta", TitleText, <<Author(<<"John">>, <<"Smith">>)>>, 2024),
    Answer("meta", <<"deep", " ", "learning">>, <<Author(<<"John">>, <<"Smith">>)>>, 2024),
    Answer("meta", <<"deep", " ", "learning">>, <<Author(<<"John">>, <<"Smith">>)>>, 2023),
    Answer("meta", TitleText, <<Author(<<"Jane">>, <<"Doe">>)>>, 2024) }

Providers == {"crossref", "dblp", "arxiv"}

\* What the three providers would answer during one call.  CrossRef and DBLP are
\* given the same answer: which of them is asked is recorded separately.
Answers == { f \in [Providers -> AnswerPool] : f["dblp"] = f["crossref"] }
ServerBehaviour == {"ok", "429", "err"}

\* What the batch endpoint does over the attempts of one request.
BatchBehaviours ==
  { <<"ok", "ok", "ok">>, <<"429", "err", "ok">>, <<"err", "429", "err">>,
    <<"429", "429", "429">> }

\* What GET /paper/search does for s2_client.search_by_title: the request
\* fails, or it returns up to two papers, of which "s2" has the title of the
\* entries in other letter case and "other" a title with no character of it.
SearchHit(paper_id, title) == [ paper_id |-> paper_id, title |-> title ]

SearchAnswer(raised, list) == [ raised |-> raised, list |-> list ]

SearchPool ==
  { SearchAnswer(TRUE, << >>),
    SearchAnswer(FALSE, << >>),
    SearchAnswer(FALSE, << SearchHit(<<"s2">>, <<"deep", " ", "learning">>) >>),
    SearchAnswer(FALSE, << SearchHit(<<"other">>, <<"0000">>) >>),
    SearchAnswer(FALSE, << SearchHit(<<"other">>, <<"0000">>),
                           SearchHit(<<"s2">>, <<"deep", " ", "learning">>) >>) }

NoStep ==
  [ entry_key |-> 0, resolved |-> NotResolved, queried |-> << >>, metadata |-> NoMetadata,
    cross |-> Unasked, result |-> DefaultResult ]

(***************************************************************************)
(* State of one run of BibVerifier.verify_file.                            *)
(*   cfg, today         the verifier's settings and the current day        *)
(*   entries, content   what parse_bib_file returned                       *)
(*   updated_content    the content being rewritten                        *)
(*   pc, idx            the position in verify_file and its loop index     *)
(*   entries_to_verify  (entry, paper_id, source, auto_found) tuples       *)
(*   resolved_map       the batch resolution result                        *)
(*   report             the VerificationReport                             *)
(*   last               of the entry verified last: the requests sent and  *)
(*                      the answers received (read by properties only)     *)
(*   searched           the entries a title search was sent for (read by   *)
(*                      properties only)                                   *)
(* State of one call of a field comparator, outside any run:               *)
(*   call               the comparator, its two arguments and, once it     *)
(*                      returned, its result                               *)
(* State of rate_limiter.py and of the threads using it:                   *)
(*   rate_limiters      _rate_limiters: registry key -> limiter, 0 absent  *)
(*   global_lock        _global_lock: the thread holding it, 0 when free   *)
(*   limiters           the RateLimiter objects, in order of creation      *)
(*   clients            the client objects, each with its _rate_limiter    *)
(*   threads            per thread: its position, its client, and of its   *)
(*                      call under way the wake-up and start times         *)
(*   clock              time.monotonic(), in tenths of a second            *)
(*   clears             how often the registry was cleared (read by        *)
(*                      properties only)                                   *)
(***************************************************************************)
VARIABLES cfg, today, entries, content, updated_content, pc, idx,
          entries_to_verify, resolved_map, report, last, searched, call

run_vars == << cfg, today, entries, content, updated_content, pc, idx,
               entries_to_verify, resolved_map, report, last, searched >>

VARIABLES rate_limiters, global_lock, limiters, clients, threads, clock, clears

limiter_vars == << rate_limiters, global_lock, limiters, clients, threads, clock, clears >>

vars == << run_vars, call, limiter_vars >>

\* No comparator call is under way.
NoCall == [ fn |-> "", a |-> << >>, b |-> << >>, done |-> FALSE,
            result |-> [match |-> FALSE, warning_only |-> FALSE] ]

\* Bounds of the rate limiter's use: threads, calls per thread, clock.
NumThreads == 2
MaxCalls == 2
MaxClock == 40

Threads == 1..NumThreads

\* api_key: "" stands for None and for the empty string.
ApiKeys == {"", "k1"}

\* key = api_key or "__no_key__"
RegistryKey(api_key) == IF api_key # "" THEN api_key ELSE "__no_key__"

RegistryKeys == { RegistryKey(api_key) : api_key \in ApiKeys }

\* A thread that has not built its client yet.
NewThread ==
  [ pc |-> "start", api_key |-> "", client |-> 0, calls |-> 0, wake |-> 0, start |-> 0,
    prev |-> -1, raised |-> FALSE ]

\* The module after import, at clock reading now.
LimitersAt(now) ==
  /\ rate_limiters = [ key \in RegistryKeys |-> 0 ]
  /\ global_lock = 0
  /\ limiters = << >>
  /\ clients = << >>
  /\ threads = [ t \in Threads |-> NewThread ]
  /\ clock = now
  /\ clears = 0

NoLimiters == LimitersAt(0)

\* The state after parse_bib_file of a file f under settings c on day d.
Start(c, f, d) ==
  /\ cfg = c
  /\ today = d
  /\ entries = [ i \in 1..Len(f) |-> EntryOf(f[i], i) ]
  /\ content = [ i \in 1..Len(f) |-> [comments |-> CommentsOf(f[i]), fixed |-> {}] ]
  /\ updated_content = content
  /\ pc = "collect"
  /\ idx = 1
  /\ entries_to_verify = << >>
  /\ resolved_map = << >>
  /\ report = EmptyReport
  /\ last = NoStep
  /\ searched = {}

Init == /\ \E c \in Configs, f \in Files : Start(c, f, "2024.03.02")
        /\ call = NoCall
        /\ NoLimiters

\* verify_file, first loop: one entry is skipped, reported as lacking an
\* identifier, or queued for verification.
CollectEntry ==
  /\ pc = "collect"
  /\ idx <= Len(entries)
  /\ \E entry \in {entries[idx]} :
     \E v \in {IsEntryVerified(content, entry.ID)} :
     \E skip \in { /\ v.is_verified /\ cfg.skip_verified
                   /\ ShouldSkipVerified(cfg.max_age_days, v.date_str, today) } :
     \E from_entry \in {ExtractPaperIdFromEntry(entry, content, cfg.auto_find_level)} :
     \E asks \in { /\ ~skip /\ from_entry.paper_id = << >>
                   /\ cfg.auto_find_level = "title" /\ entry.title # << >> } :
     \E search \in IF asks THEN SearchPool ELSE {SearchAnswer(FALSE, << >>)} :
     \E ext \in {IF asks THEN SearchByTitleForId(entry, search) ELSE from_entry} :
       /\ searched' = IF asks THEN searched \cup {entry.ID} ELSE searched
       /\ report' =
            IF skip
            THEN AddResult(report, [ DefaultResult EXCEPT
                                       !.entry_key = entry.ID, !.success = TRUE,
                                       !.message = "Already verified",
                                       !.already_verified = TRUE ])
            ELSE IF ext.paper_id = << >>
            THEN AddResult(report, [ DefaultResult EXCEPT
                                       !.entry_key = entry.ID, !.success = TRUE,
                                       !.message = "No paper_id found",
                                       !.no_paper_id = TRUE ])
            ELSE report
       /\ entries_to_verify' =
            IF skip \/ ext.paper_id = << >> THEN entries_to_verify
            ELSE Append(entries_to_verify,
                        [ entry |-> entry, paper_id |-> ext.paper_id,
                          source |-> ext.source,
                          auto_found |-> ext.source \in {"doi", "eprint", "title"} ])
       /\ idx' = idx + 1
       /\ pc' = IF idx < Len(entries) THEN "collect"
                ELSE IF entries_to_verify' = << >> THEN "done" ELSE "resolve"
  /\ UNCHANGED << cfg, today, entries, content, updated_content, resolved_map, last,
                  call, limiter_vars >>

\* verify_file resolving only the identifier of the first pending entry.
ResolveBatchFirstOnly ==
  /\ pc = "resolve"
  /\ \E paper_ids \in {<< entries_to_verify[1].paper_id >>} :
     \E behaviour \in [1..1 -> BatchBehaviours] :
     \E outcomes \in {[ c \in 1..1 |-> RequestWithRetry(behaviour[c]) ]} :
     \E data \in IF outcomes[1] = "response"
                  THEN [1..1 -> [1..1 -> RawPool]]
                  ELSE { [ c \in 1..1 |-> [ i \in 1..1 |-> NullData ] ] } :
     \E r \in {ResolveIdsBatch(paper_ids, outcomes, data)} :
       IF r.raised
       THEN /\ pc' = "raised"
            /\ UNCHANGED << resolved_map, idx >>
       ELSE /\ resolved_map' = r.map
            /\ idx' = 1
            /\ pc' = "verify"
  /\ UNCHANGED << cfg, today, entries, content, updated_content, entries_to_verify,
                  report, last, searched, call, limiter_vars >>

\* verify_file, self._resolve_batch(paper_ids): one request per chunk, each with
\* its retries.  A ConnectionError leaves verify_file.
ResolveBatch ==
  /\ pc = "resolve"
  /\ \E paper_ids \in {[ i \in 1..Len(entries_to_verify) |-> entries_to_verify[i].paper_id ]} :
     \E n \in {NumChunks(paper_ids)} :
     \E behaviour \in [1..n -> BatchBehaviours] :
     \E outcomes \in {[ c \in 1..n |-> RequestWithRetry(behaviour[c]) ]} :
     \E data \in IF \A c \in 1..n : outcomes[c] = "response"
                  THEN [1..n -> [1..Len(paper_ids) -> RawPool]]
                  ELSE { [ c \in 1..n |-> [ i \in 1..Len(paper_ids) |-> NullData ] ] } :
     \E r \in {ResolveIdsBatch(paper_ids, outcomes, data)} :
       IF r.raised
       THEN /\ pc' = "raised"
            /\ UNCHANGED << resolved_map, idx >>
       ELSE /\ resolved_map' = r.map
            /\ idx' = 1
            /\ pc' = "verify"
  /\ UNCHANGED << cfg, today, entries, content, updated_content, entries_to_verify,
                  report, last, searched, call, limiter_vars >>

\* verify_file, second loop: one queued entry is verified, its result added to
\* the report and its annotation written back.
VerifyEntry ==
  /\ pc = "verify"
  /\ idx <= Len(entries_to_verify)
  /\ \E item \in {entries_to_verify[idx]} :
     \E resolved \in {resolved_map[item.paper_id]} :
     \E answers \in Answers :
     \E v \in {VerifyEntryWithResolved(cfg, item.entry, item.paper_id, item.source,
                                       item.auto_found, resolved, answers)} :
       /\ report' = AddResult(report, v.result)
       /\ updated_content' = WriteBack(cfg, updated_content, item.entry, v.result, today)
       /\ last' = [ entry_key |-> item.entry.ID, resolved |-> resolved,
                   queried |-> v.queried, metadata |-> v.metadata,
                   cross |-> v.cross, result |-> v.result ]
  /\ idx' = idx + 1
  /\ pc' = IF idx < Len(entries_to_verify) THEN "verify" ELSE "done"
  /\ UNCHANGED << cfg, today, entries, content, entries_to_verify, resolved_map,
                  searched, call, limiter_vars >>

Next == CollectEntry \/ ResolveBatch \/ VerifyEntry

Spec == Init /\ [][Next]_vars

(***************************************************************************)
(* The skip decision on its own: one annotated entry, every max-age from   *)
(* -MaxAgeDays to MaxAgeDays or none, skipping on or off, three days for   *)
(* today.  The run stops after the first loop.                             *)
(***************************************************************************)
MaxAgeDays == 2

SkipConfigs ==
  [ skip_verified : BOOLEAN,
    max_age_days : {NoInt} \cup { SomeInt(n) : n \in (0 - MaxAgeDays)..MaxAgeDays },
    auto_find_level : {"id"}, fix_mismatches : {FALSE}, arxiv_check : {TRUE},
    mark_warnings_verified : {FALSE} ]

SkipKinds == DOMAIN DateDigits \cup {"missing"}

Days == {"2024.03.01", "2024.03.02", "2024.03.03"}

SkipInit == /\ \E c \in SkipConfigs, k \in SkipKinds, d \in Days : Start(c, <<k>>, d)
            /\ call = NoCall
            /\ NoLimiters

SkipNext == CollectEntry

SkipSpec == SkipInit /\ [][SkipNext]_vars

(***************************************************************************)
(* The field comparators on their own: one call of a comparator on a pair  *)
(* of values of its pool, with no run under way.                           *)
(***************************************************************************)
NoRun == Start(CHOOSE c \in Configs : c.auto_find_level = "none", << >>, "2024.03.02")

\* Titles that are equal, differ in letter case, braces, "$" or blanks only,
\* or differ in a punctuation mark, in a word, or in having no blank.
TitlePool ==
  { TitleText,
    <<"deep", " ", "learning">>,
    <<"{", "Deep", "}", " ", "Learning">>,
    <<"$", "DEEP", "$", " ", "Learning">>,
    <<"Deep", " ", " ", "Learning">>,
    <<" ", "Deep", " ", "Learning", " ">>,
    <<"Deep", " ", "Learning", "!">>,
    <<"Deep", " ", "X">>,
    <<"Deep", "Learning">>,
    <<"{", "}">>,
    << >> }

\* Author fields of one or two authors, written "Family, Given" or "Given
\* Family", and fields that differ from them in the order of the authors, in
\* letter case, by an abbreviated given name, in markup, in the separator's
\* letter case, or in blanks.
AuthorFieldPool ==
  { AuthorText,
    <<"John", " ", "Smith">>,
    <<"Smith", ",", " ", "John", " ", "and", " ", "Doe", ",", " ", "Jane">>,
    <<"John", " ", "Smith", " ", "and", " ", "Jane", " ", "Doe">>,
    <<"Jane", " ", "Doe", " ", "and", " ", "John", " ", "Smith">>,
    <<"John", " ", "Smith", " ", "AND", " ", "Jane", " ", "Doe">>,
    <<"John", " ", "smith">>,
    <<"J.", " ", "Smith">>,
    <<"\\emph", "{", "John", "}", " ", " ", "Smith">>,
    <<"Smith", " ", "John">>,
    << >> }

\* The list of names compare_authors is given for the fetched authors.
SsAuthorsPool ==
  { <<AuthorText>>,
    << <<"John", " ", "Smith">> >>,
    << <<"John", " ", "Smith">>, <<"Jane", " ", "Doe">> >>,
    << AuthorText, <<"Doe", ",", " ", "Jane">> >>,
    << <<"Jane", " ", "Doe">>, <<"John", " ", "Smith">> >>,
    << <<"John", " ", "Smith">>, <<"John", " ", "Smith">> >>,
    << >> }

\* The year field of an entry: a numeral, a numeral between blanks, text that
\* is no numeral, or no year field.
YearFieldPool ==
  { <<"2023">>, <<"2024">>, <<" ", "2024", " ">>, <<"2024a">>, <<"in", " ", "press">>, << >> }

\* metadata.year: a year, or 0 for None.
FetchedYears == {0, 2023, 2024}

\* Venue names: canonical names, a name in other letter case, names with a
\* year after them, an alias that is not the canonical name, and names the
\* table does not know.
VenuePool ==
  { ACL,
    <<"a","c","l">>,
    <<"A","C","L"," ","2","3">>,
    <<"N","A","A","C","L">>,
    <<"C","o","R","L">>,
    <<"C","o","R","L"," ","2","3">>,
    <<"a","r","X","i","v">>,
    <<"a","r","x","i","v"," ","p","r","e","p","r","i","n","t">>,
    <<"X">>,
    <<"x"," ">>,
    <<"I","S","O">> }

\* Authors the providers give with an empty given name (fetcher.py: a name
\* of one word, or a CrossRef author without "given").
SingleNamePool == { <<"Madonna">>, <<"Plato">> }

\* Author fields of an entry that name such an author: the bare name, in
\* braces, in other letter case, with a comma after it, and next to a second
\* author.
SingleNameFieldPool ==
  { <<"Madonna">>, <<"Plato">>, <<"{", "Madonna", "}">>, <<"madonna">>,
    <<"Madonna", ",">>, <<"Madonna", ",", " ">>,
    <<"Madonna", " ", "and", " ", "Smith", ",", " ", "John">>,
    <<"Madonna", ",", " ", "and", " ", "Smith", ",", " ", "John">> }

CompareInit ==
  /\ NoRun
  /\ NoLimiters
  /\ \/ \E a \in TitlePool, b \in TitlePool :
          call = [NoCall EXCEPT !.fn = "compare_titles", !.a = a, !.b = b]
     \/ \E a \in AuthorFieldPool, b \in SsAuthorsPool :
          call = [NoCall EXCEPT !.fn = "compare_authors", !.a = a, !.b = b]
     \/ \E a \in VenuePool, b \in VenuePool :
          call = [NoCall EXCEPT !.fn = "compare_venues", !.a = a, !.b = b]
     \/ \E y \in YearFieldPool, year \in FetchedYears,
           title \in {TitleText, <<"deep", " ", "learning">>, <<"Deep", " ", "X">>} :
          call = [NoCall EXCEPT
                    !.fn = "check_field_mismatches",
                    !.a = [EntryOf("plain", 1) EXCEPT !.year = y],
                    !.b = PaperMetadataOf(
                            Answer("meta", title, <<Author(<<"John">>, <<"Smith">>)>>, year),
                            "crossref")]
     \/ \E family \in SingleNamePool, a \in AuthorFieldPool \cup SingleNameFieldPool,
           more \in BOOLEAN :
          call = [NoCall EXCEPT
                    !.fn = "check_field_mismatches",
                    !.a = [EntryOf("plain", 1) EXCEPT !.author = a],
                    !.b = PaperMetadataOf(
                            Answer("meta", TitleText,
                                   <<Author(<< >>, family)>>
                                     \o (IF more THEN <<Author(<<"John">>, <<"Smith">>)>>
                                         ELSE << >>),
                                   2024),
                            "crossref")]

CallCompareTitles ==
  /\ call.fn = "compare_titles"
  /\ ~call.done
  /\ call' = [call EXCEPT !.done = TRUE, !.result = CompareTitles(call.a, call.b)]
  /\ UNCHANGED << run_vars, limiter_vars >>

CallCompareAuthors ==
  /\ call.fn = "compare_authors"
  /\ ~call.done
  /\ call' = [call EXCEPT !.done = TRUE, !.result = CompareAuthors(call.a, call.b)]
  /\ UNCHANGED << run_vars, limiter_vars >>

CallCompareVenues ==
  /\ call.fn = "compare_venues"
  /\ ~call.done
  /\ call' = [call EXCEPT !.done = TRUE, !.result = CompareVenues(call.a, call.b)]
  /\ UNCHANGED << run_vars, limiter_vars >>

CallCheckFieldMismatches ==
  /\ call.fn = "check_field_mismatches"
  /\ ~call.done
  /\ call' = [call EXCEPT !.done = TRUE, !.result = CheckFieldMismatches(call.a, call.b)]
  /\ UNCHANGED << run_vars, limiter_vars >>

CompareNext ==
  CallCompareTitles \/ CallCompareAuthors \/ CallCompareVenues \/ CallCheckFieldMismatches

CompareSpec == CompareInit /\ [][CompareNext]_vars

(***************************************************************************)
(* rate_limiter.py: RateLimiter, get_rate_limiter, reset_all_rate_limiters,*)
(* used by threads that each build one client object and then call         *)
(* through its limiter.  Times are in tenths of a second.                  *)
(***************************************************************************)
\* min_interval = 1.0 if api_key else 3.0
IntervalWithKey == 10
IntervalNoKey == 30
\* crossref.py: RateLimiter(min_interval=0.1)
CrossRefInterval == 1

MinIntervalFor(api_key) == IF api_key # "" THEN IntervalWithKey ELSE IntervalNoKey

\* RateLimiter.__init__; completed is the time of the last completion since
\* the limiter was made or reset, -1 for none, and failed whether the function
\* of that call raised (both read by properties only).
NewRateLimiter(min_interval) ==
  [ min_interval |-> min_interval, last_request_time |-> 0, lock |-> 0, completed |-> -1,
    failed |-> FALSE ]

\* with self._lock: the lock can be taken.
LockIgnored(limiter) == TRUE

LockFree(limiter) == limiter.lock = 0

\* wait_time = max(0.0, self.min_interval - elapsed), never waiting.
WaitTimeNone(min_interval, now, last_request_time) == 0

\* wait_time = max(0.0, self.min_interval - elapsed)
WaitTime(min_interval, now, last_request_time) ==
  IF min_interval - (now - last_request_time) > 0
  THEN min_interval - (now - last_request_time) ELSE 0

\* The limiter of thread t's client.
LimiterOf(t) == clients[threads[t].client].limiter

\* How far time.monotonic() moves in one step, and what it reads at first.
TickStep == 5
StartClocks == {0, 5, 30}

LimiterInit ==
  /\ NoRun
  /\ call = NoCall
  /\ \E now \in StartClocks : LimitersAt(now)

\* SemanticScholarClient.__init__ calls get_rate_limiter(api_key), which
\* enters "with _global_lock".
EnterGetRateLimiter(t) ==
  /\ threads[t].pc = "start"
  /\ global_lock = 0
  /\ global_lock' = t
  /\ \E api_key \in ApiKeys :
       threads' = [threads EXCEPT ![t].pc = "get", ![t].api_key = api_key]
  /\ UNCHANGED << rate_limiters, limiters, clients, clock, clears, run_vars, call >>

\* The body of get_rate_limiter under _global_lock; the client keeps what it
\* returns as its _rate_limiter.
GetRateLimiter(t) ==
  /\ threads[t].pc = "get"
  /\ \E api_key \in {threads[t].api_key} :
     \E key \in {RegistryKey(api_key)} :
     \E id \in {IF rate_limiters[key] = 0 THEN Len(limiters) + 1 ELSE rate_limiters[key]} :
       /\ limiters' = IF rate_limiters[key] = 0
                      THEN Append(limiters, NewRateLimiter(MinIntervalFor(api_key)))
                      ELSE limiters
       /\ rate_limiters' = [rate_limiters EXCEPT ![key] = id]
       /\ clients' = Append(clients, [ provider |-> "semantic_scholar", api_key |-> api_key,
                                       limiter |-> id ])
  /\ threads' = [threads EXCEPT ![t].pc = "ready", ![t].client = Len(clients) + 1]
  /\ global_lock' = 0
  /\ UNCHANGED << clock, clears, run_vars, call >>

\* crossref.py: CrossRefClient.__init__ makes a RateLimiter of its own.
NewCrossRefClient(t) ==
  /\ threads[t].pc = "start"
  /\ limiters' = Append(limiters, NewRateLimiter(CrossRefInterval))
  /\ clients' = Append(clients, [ provider |-> "crossref", api_key |-> "",
                                  limiter |-> Len(limiters) + 1 ])
  /\ threads' = [threads EXCEPT ![t].pc = "ready", ![t].client = Len(clients) + 1]
  /\ UNCHANGED << rate_limiters, global_lock, clock, clears, run_vars, call >>

\* RateLimiter.execute: the lock is taken, now is read and wait_time
\* computed; the thread sleeps, or calls func at once.
ExecuteEnter(t) ==
  /\ threads[t].pc = "ready"
  /\ threads[t].calls < MaxCalls
  /\ \E l \in {LimiterOf(t)} :
       /\ LockFree(limiters[l])
       /\ \E wait_time \in {WaitTime(limiters[l].min_interval, clock,
                                      limiters[l].last_request_time)} :
            threads' = [threads EXCEPT
                          ![t].pc = IF wait_time > 0 THEN "sleeping" ELSE "running",
                          ![t].wake = clock + wait_time,
                          ![t].start = clock,
                          ![t].prev = limiters[l].completed,
                          ![t].raised = FALSE]
       /\ limiters' = [limiters EXCEPT ![l].lock = t]
  /\ UNCHANGED << rate_limiters, global_lock, clients, clock, clears, run_vars, call >>

\* time.sleep(wait_time) returns, no sooner than asked, and func is called.
ExecuteWake(t) ==
  /\ threads[t].pc = "sleeping"
  /\ clock >= threads[t].wake
  /\ threads' = [threads EXCEPT ![t].pc = "running", ![t].start = clock,
                                ![t].prev = limiters[LimiterOf(t)].completed]
  /\ UNCHANGED << rate_limiters, global_lock, limiters, clients, clock, clears,
                  run_vars, call >>

\* execute without its try/finally: when func raises, the lock is released by
\* the with statement but the time is not stored.
ExecuteFinishNoFinally(t) ==
  /\ threads[t].pc = "running"
  /\ \E raises \in BOOLEAN :
       /\ limiters' = IF raises
                      THEN [limiters EXCEPT ![LimiterOf(t)].lock = 0]
                      ELSE [limiters EXCEPT ![LimiterOf(t)].last_request_time = clock,
                                            ![LimiterOf(t)].completed = clock,
                                            ![LimiterOf(t)].failed = FALSE,
                                            ![LimiterOf(t)].lock = 0]
       /\ threads' = [threads EXCEPT ![t].pc = "ready", ![t].calls = @ + 1, ![t].wake = 0,
                                     ![t].start = 0, ![t].prev = -1, ![t].raised = raises]
  /\ UNCHANGED << rate_limiters, global_lock, clients, clock, clears, run_vars, call >>

\* func returns or raises: the finally clause stores the time, the lock is
\* released, and the value or the exception goes to the caller (raised).
ExecuteFinish(t) ==
  /\ threads[t].pc = "running"
  /\ \E raises \in BOOLEAN :
       /\ limiters' = [limiters EXCEPT ![LimiterOf(t)].last_request_time = clock,
                                       ![LimiterOf(t)].completed = clock,
                                       ![LimiterOf(t)].failed = raises,
                                       ![LimiterOf(t)].lock = 0]
       /\ threads' = [threads EXCEPT ![t].pc = "ready", ![t].calls = @ + 1, ![t].wake = 0,
                                     ![t].start = 0, ![t].prev = -1, ![t].raised = raises]
  /\ UNCHANGED << rate_limiters, global_lock, clients, clock, clears, run_vars, call >>

\* RateLimiter.reset
Reset(t) ==
  /\ threads[t].pc = "ready"
  /\ threads[t].calls < MaxCalls
  /\ LockFree(limiters[LimiterOf(t)])
  /\ limiters' = [limiters EXCEPT ![LimiterOf(t)].last_request_time = 0,
                                  ![LimiterOf(t)].completed = -1,
                                  ![LimiterOf(t)].failed = FALSE]
  /\ threads' = [threads EXCEPT ![t].calls = @ + 1]
  /\ UNCHANGED << rate_limiters, global_lock, clients, clock, clears, run_vars, call >>

\* reset_all_rate_limiters
ResetAllRateLimiters(t) ==
  /\ threads[t].pc = "ready"
  /\ threads[t].calls < MaxCalls
  /\ global_lock = 0
  /\ rate_limiters' = [ key \in RegistryKeys |-> 0 ]
  /\ clears' = clears + 1
  /\ threads' = [threads EXCEPT ![t].calls = @ + 1]
  /\ UNCHANGED << global_lock, limiters, clients, clock, run_vars, call >>

\* Time passes.
Tick ==
  /\ clock + TickStep <= MaxClock
  /\ clock' = clock + TickStep
  /\ UNCHANGED << rate_limiters, global_lock, limiters, clients, threads, clears,
                  run_vars, call >>

LimiterNext ==
  \/ \E t \in Threads : EnterGetRateLimiter(t)
  \/ \E t \in Threads : GetRateLimiter(t)
  \/ \E t \in Threads : NewCrossRefClient(t)
  \/ \E t \in Threads : ExecuteEnter(t)
  \/ \E t \in Threads : ExecuteWake(t)
  \/ \E t \in Threads : ExecuteFinish(t)
  \/ \E t \in Threads : Reset(t)
  \/ \E t \in Threads : ResetAllRateLimiters(t)
  \/ Tick

LimiterSpec == LimiterInit /\ [][LimiterNext]_vars

\* A thread inside execute goes on: time passes, time.sleep returns, and the
\* wrapped function returns or raises.  The runs start late, at the clock
\* readings of LateClocks.
LateClocks == {25, 30}

LimiterLateInit ==
  /\ NoRun
  /\ call = NoCall
  /\ \E now \in LateClocks : LimitersAt(now)

LimiterFairSpec ==
  /\ LimiterLateInit
  /\ [][LimiterNext]_vars
  /\ WF_vars(Tick)
  /\ \A t \in Threads : WF_vars(ExecuteWake(t)) /\ WF_vars(ExecuteFinish(t))

(***************************************************************************)
(* The clients' lookups on their own: one lookup against a server whose    *)
(* reply to each request in turn is given, with no run under way.          *)
(*   semantic_scholar.py  SemanticScholarClient.resolve_ids                *)
(*   fetcher.py           CrossRefClient._fetch_work,                      *)
(*                        DBLPClient.search_by_title                       *)
(* A lookup ends with outcome "value", "none" (None returned) or "raise";  *)
(* requests counts the requests sent, sleeps lists the backoff sleeps in   *)
(* seconds.                                                                *)
(***************************************************************************)
\* What the server does with one request: a good answer, a status 404, 429 or
\* 500, or no answer (a transport error).
ServerReplies == {"ok", "404", "429", "500", "timeout"}

ReplyPool == [1..max_retries -> ServerReplies]

\* SemanticScholarClient._request_with_retry, with what it sent and slept.
\* raised is "" when the response is returned.
RECURSIVE RequestWithRetryTrace(_, _, _)
RequestWithRetryTrace(replies, attempt, sleeps) ==
  IF attempt >= max_retries
  THEN [ raised |-> "ConnectionError", status |-> "", requests |-> attempt, sleeps |-> sleeps ]
  ELSE IF replies[attempt + 1] = "429"
  THEN RequestWithRetryTrace(replies, attempt + 1, Append(sleeps, (attempt + 1) * 10))
  ELSE IF replies[attempt + 1] = "ok"
  THEN [ raised |-> "", status |-> "ok", requests |-> attempt + 1, sleeps |-> sleeps ]
  ELSE IF attempt < max_retries - 1
  THEN RequestWithRetryTrace(replies, attempt + 1, Append(sleeps, (attempt + 1) * 5))
  ELSE [ raised |-> IF replies[attempt + 1] = "timeout" THEN "HTTPError"
                    ELSE "HTTPStatusError",
         status |-> replies[attempt + 1], requests |-> attempt + 1, sleeps |-> sleeps ]

Digits == {"0", "1", "2", "3", "4", "5", "6", "7", "8", "9"}

\* re.match(r"^\d{4}\.\d{4,5}(v\d+)?$", paper_id), paper_id a sequence of
\* characters.  $ also matches in front of a newline that ends the string.
LooksLikeArxivId(paper_id) ==
  LET FullMatch(s) ==
        LET n == Len(s)
            AllDigits(a, b) == \A i \in a..b : s[i] \in Digits
            Version(k) == \/ k = n + 1
                          \/ k + 1 <= n /\ s[k] = "v" /\ AllDigits(k + 1, n)
        IN  /\ n >= 9
            /\ AllDigits(1, 4)
            /\ s[5] = "."
            /\ AllDigits(6, 9)
            /\ \/ Version(10)
               \/ n >= 10 /\ s[10] \in Digits /\ Version(11)
  IN  \/ FullMatch(paper_id)
      \/ /\ paper_id # << >>
         /\ paper_id[Len(paper_id)] = "\n"
         /\ FullMatch(SubSeq(paper_id, 1, Len(paper_id) - 1))

\* SemanticScholarClient._normalize_paper_id
NormalizePaperId(paper_id) ==
  IF \E i \in 1..Len(paper_id) : paper_id[i] \in {":", "/"} THEN paper_id
  ELSE IF LooksLikeArxivId(paper_id) THEN <<"A", "R", "X", "I", "V", ":">> \o paper_id
  ELSE paper_id

\* SemanticScholarClient.resolve_ids: sent is the identifier put in the URL.
ResolveIds(paper_id, replies) ==
  LET Outcome(r) ==
        [ outcome |-> IF r.raised = "" THEN "value"
                      ELSE IF r.raised = "HTTPStatusError"
                           THEN IF r.status = "404" THEN "none" ELSE "raise"
                      ELSE IF r.raised = "HTTPError" THEN "none"
                      ELSE "raise",
          requests |-> r.requests, sleeps |-> r.sleeps,
          sent |-> NormalizePaperId(paper_id) ]
  IN  Outcome(RequestWithRetryTrace(replies, 0, << >>))

\* CrossRefClient._fetch_work
RECURSIVE FetchWork(_, _, _)
FetchWork(replies, attempt, sleeps) ==
  IF attempt >= max_retries
  THEN [ outcome |-> "raise", requests |-> attempt, sleeps |-> sleeps ]
  ELSE IF replies[attempt + 1] = "404"
  THEN [ outcome |-> "none", requests |-> attempt + 1, sleeps |-> sleeps ]
  ELSE IF replies[attempt + 1] = "429"
  THEN FetchWork(replies, attempt + 1, Append(sleeps, (attempt + 1) * 5))
  ELSE IF replies[attempt + 1] = "ok"
  THEN [ outcome |-> "value", requests |-> attempt + 1, sleeps |-> sleeps ]
  ELSE IF attempt < max_retries - 1
  THEN FetchWork(replies, attempt + 1, Append(sleeps, (attempt + 1) * 2))
  ELSE [ outcome |-> "raise", requests |-> attempt + 1, sleeps |-> sleeps ]

\* DBLPClient.search_by_title: one request; any HTTPError becomes DBLPError.
DblpSearchByTitle(replies) ==
  [ outcome |-> IF replies[1] = "ok" THEN "value" ELSE "raise",
    requests |-> 1, sleeps |-> << >> ]

\* What POST /paper/batch answers for one identifier of the body: under "odd"
\* the service knows the identifiers that end in an odd digit.  The answer
\* carries the identifier it was asked for, so that answers can be told apart.
KnownPool == {"all", "odd"}

ServerData(known, paper_id) ==
  IF known = "all" \/ paper_id[Len(paper_id)] \in {"1", "3", "5", "7", "9"}
  THEN RawData(<<"s2:">> \o paper_id, << >>, << >>, ACL, TitleText)
  ELSE NullData

\* SemanticScholarClient.resolve_ids_batch with the requests it sends.
\* replies[c] is what the server does over the attempts for chunk c.  chunks
\* lists, for each chunk a request was sent for, the body sent, the number of
\* requests and the sleeps; a ConnectionError ends the call at its chunk.
ResolveIdsBatchTrace(paper_ids, replies, known) ==
  LET n == NumChunks(paper_ids)
      traces == [ c \in 1..n |-> RequestWithRetryTrace(replies[c], 0, << >>) ]
      outcomes == [ c \in 1..n |->
                      IF traces[c].raised = "" THEN "response"
                      ELSE IF traces[c].raised = "ConnectionError" THEN "ConnectionError"
                      ELSE "HTTPError" ]
      data == [ c \in 1..n |->
                  LET batch == Chunk(paper_ids, c)
                  IN  [ i \in 1..Len(batch) |-> ServerData(known, batch[i]) ] ]
      r == ResolveIdsBatch(paper_ids, outcomes, data)
      raising == { c \in 1..n : outcomes[c] = "ConnectionError" }
      stop == IF raising = {} THEN n ELSE CHOOSE c \in raising : \A d \in raising : c <= d
  IN  [ outcome |-> IF r.raised THEN "raise" ELSE "value",
        map |-> IF r.raised THEN << >> ELSE r.map,
        chunks |-> [ c \in 1..stop |->
                       [ ids |-> Chunk(paper_ids, c), outcome |-> outcomes[c],
                         requests |-> traces[c].requests, sleeps |-> traces[c].sleeps ] ] ]

\* Identifiers as sequences of characters: bare arXiv identifiers, with and
\* without version, prefixed ones, a DOI, a Semantic Scholar id, and strings
\* that miss the arXiv shape by one character.
PaperIdPool ==
  { <<"2", "1", "0", "6", ".", "0", "9", "6", "8", "5">>,
    <<"2", "1", "0", "6", ".", "0", "9", "6", "8">>,
    <<"2", "1", "0", "6", ".", "0", "9", "6", "8", "5", "v", "2">>,
    <<"2", "1", "0", "6", ".", "0", "9", "6", "8", "5", "v">>,
    <<"2", "1", "0", "6", ".", "0", "9", "6", "8", "5", "1">>,
    <<"2", "1", "0", ".", "0", "9", "6", "8", "5">>,
    <<"A", "R", "X", "I", "V", ":", "2", "1", "0", "6", ".", "0", "9", "6", "8", "5">>,
    <<"1", "0", ".", "1", "/", "x">>,
    <<"6", "4", "9", "d", "e", "f">> }

\* The decimal digits of a positive number.
RECURSIVE Decimal(_)
Decimal(i) ==
  LET d == <<"0", "1", "2", "3", "4", "5", "6", "7", "8", "9">>[(i % 10) + 1]
  IN  IF i < 10 THEN <<d>> ELSE Append(Decimal(i \div 10), d)

\* A list of n identifiers p1, p2, ...; with dup, the last repeats the first.
LongList(n, dup) ==
  [ i \in 1..n |-> <<"p">> \o Decimal(IF dup /\ i = n THEN 1 ELSE i) ]

\* The lists given to resolve_ids_batch: short ones, and ones of one full
\* chunk, one identifier more, and two full chunks and one more.
ShortLists ==
  { << >> } \cup { <<id>> : id \in PaperIdPool }
  \cup { << <<"p", "1">>, <<"p", "2">>, <<"p", "1">> >> }

LongLists ==
  { LongList(BATCH_SIZE, FALSE), LongList(BATCH_SIZE + 1, FALSE),
    LongList(BATCH_SIZE + 1, TRUE), LongList(2 * BATCH_SIZE + 1, TRUE) }

\* What the server does over the attempts for one chunk of a long list.
ChunkReplies ==
  { <<"ok", "ok", "ok">>, <<"429", "500", "ok">>, <<"500", "timeout", "500">>,
    <<"429", "429", "429">> }

LookupInit ==
  /\ NoRun
  /\ NoLimiters
  /\ \/ \E fn \in {"fetch_work", "search_by_title"}, replies \in ReplyPool :
          call = [NoCall EXCEPT !.fn = fn, !.a = replies]
     \/ \E paper_id \in PaperIdPool, replies \in ReplyPool :
          call = [NoCall EXCEPT !.fn = "resolve_ids", !.a = replies, !.b = paper_id]
     \/ \E paper_ids \in ShortLists, replies \in ReplyPool, known \in KnownPool :
          call = [NoCall EXCEPT !.fn = "resolve_ids_batch", !.a = paper_ids,
                                !.b = [replies |-> <<replies>>, known |-> known]]
     \/ \E paper_ids \in LongLists, known \in KnownPool :
        \E replies \in [1..NumChunks(paper_ids) -> ChunkReplies] :
          call = [NoCall EXCEPT !.fn = "resolve_ids_batch", !.a = paper_ids,
                                !.b = [replies |-> replies, known |-> known]]

CallResolveIds ==
  /\ call.fn = "resolve_ids"
  /\ ~call.done
  /\ call' = [call EXCEPT !.done = TRUE, !.result = ResolveIds(call.b, call.a)]
  /\ UNCHANGED << run_vars, limiter_vars >>

CallFetchWork ==
  /\ call.fn = "fetch_work"
  /\ ~call.done
  /\ call' = [call EXCEPT !.done = TRUE, !.result = FetchWork(call.a, 0, << >>)]
  /\ UNCHANGED << run_vars, limiter_vars >>

CallSearchByTitle ==
  /\ call.fn = "search_by_title"
  /\ ~call.done
  /\ call' = [call EXCEPT !.done = TRUE, !.result = DblpSearchByTitle(call.a)]
  /\ UNCHANGED << run_vars, limiter_vars >>

CallResolveIdsBatch ==
  /\ call.fn = "resolve_ids_batch"
  /\ ~call.done
  /\ call' = [call EXCEPT !.done = TRUE,
                          !.result = ResolveIdsBatchTrace(call.a, call.b.replies,
                                                          call.b.known)]
  /\ UNCHANGED << run_vars, limiter_vars >>

LookupNext == CallResolveIds \/ CallResolveIdsBatch \/ CallFetchWork \/ CallSearchByTitle

LookupSpec == LookupInit /\ [][LookupNext]_vars

(***************************************************************************)
(* A VerificationReport on its own: add_result called with any results,    *)
(* up to MaxResults of them, with no run under way.                        *)
(***************************************************************************)
MaxResults == 3

\* VerificationResult objects with every combination of the fields that
\* add_result reads, consistent or not.
ResultPool ==
  { [ DefaultResult EXCEPT !.success = f[1], !.already_verified = f[2],
                           !.no_paper_id = f[3], !.fixed = f[4],
                           !.warnings = IF f[5] THEN <<"title">> ELSE << >> ] :
      f \in [1..5 -> BOOLEAN] }

ReportInit ==
  /\ NoRun
  /\ call = NoCall
  /\ NoLimiters

CallAddResult ==
  /\ Len(report.results) < MaxResults
  /\ \E result \in ResultPool : report' = AddResult(report, result)
  /\ UNCHANGED << cfg, today, entries, content, updated_content, pc, idx,
                  entries_to_verify, resolved_map, last, searched, call, limiter_vars >>

ReportNext == CallAddResult

ReportSpec == ReportInit /\ [][ReportNext]_vars


\* The first entry of the file carries a verified annotation (tag and date).
FirstIsVerified == IsEntryVerified(content, 1).is_verified

FirstDate == IsEntryVerified(content, 1).date_str

\* The first loop is over and the first entry was short-circuited.
FirstCollected == idx > 1 /\ pc # "collect"

FirstSkipped == Len(report.results) >= 1 /\ report.results[1].already_verified

\* C6 as stated: a verified entry is skipped iff skipping is enabled and either
\* no max-age is set, or max-age > 0 and the age in days is at most max-age.
C6_SkipPolicyPositive ==
  (FirstCollected /\ FirstIsVerified) =>
    ( FirstSkipped <=>
        /\ cfg.skip_verified
        /\ \/ cfg.max_age_days = NoInt
           \/ /\ cfg.max_age_days[1] > 0
              /\ ~StrptimeFails(FirstDate)
              /\ AgeDays(today, FirstDate) <= cfg.max_age_days[1] )

\* C6, amended: a verified entry is skipped iff skipping is enabled and either no
\* max-age is set, or max-age is not 0 (a negative one included), the date
\* parses, and the age in days is at most max-age; with max-age 0 it is never
\* skipped.
C6_SkipPolicy ==
  (FirstCollected /\ FirstIsVerified) =>
    ( FirstSkipped <=>
        /\ cfg.skip_verified
        /\ \/ cfg.max_age_days = NoInt
           \/ /\ cfg.max_age_days[1] # 0
              /\ ~StrptimeFails(FirstDate)
              /\ AgeDays(today, FirstDate) <= cfg.max_age_days[1] )

\* A verified entry as old as the max-age allows was skipped.
C6_Witness ==
  /\ FirstCollected /\ FirstIsVerified /\ FirstSkipped
  /\ cfg.max_age_days # NoInt
  /\ cfg.max_age_days[1] > 0
  /\ AgeDays(today, FirstDate) = cfg.max_age_days[1]

\* C7 as stated: an entry whose verification date does not parse is never
\* skipped, whatever the max-age, none included.
C7_InvalidDateNeverSkipped ==
  (FirstCollected /\ FirstIsVerified /\ StrptimeFails(FirstDate)) => ~FirstSkipped

\* C7, amended: an entry whose verification date does not parse is re-verified
\* for every max-age that is set; it is skipped when no max-age is set (and
\* skipping is enabled), because the date is then never looked at.
C7_InvalidDate ==
  (FirstCollected /\ FirstIsVerified /\ StrptimeFails(FirstDate)) =>
    (FirstSkipped <=> (cfg.skip_verified /\ cfg.max_age_days = NoInt))

\* An entry with an unparseable date was queued for verification although
\* skipping is on and a positive max-age is set.
C7_Witness ==
  /\ FirstCollected /\ FirstIsVerified /\ StrptimeFails(FirstDate)
  /\ cfg.skip_verified
  /\ cfg.max_age_days # NoInt
  /\ cfg.max_age_days[1] > 0
  /\ ~FirstSkipped
  /\ Len(entries_to_verify) = 1

(***************************************************************************)
(* Properties of a verify_file run.                                        *)
(***************************************************************************)
\* The last step fetched metadata for a resolved paper.
Fetched == last.entry_key # 0 /\ last.resolved.found

\* The provider the priority rule names for a resolution.
PriorityProvider(resolved) ==
  IF resolved.doi # << >> THEN "crossref"
  ELSE IF ~IsArxivVenue(resolved.venue) THEN "dblp"
  ELSE "arxiv"

\* The key the named provider is asked with is missing from the resolution.
ProviderKeyMissing(resolved) ==
  \/ PriorityProvider(resolved) = "dblp" /\ resolved.title = << >>
  \/ PriorityProvider(resolved) = "arxiv" /\ resolved.arxiv_id = << >>

\* C1 as stated: every fetch for a resolved paper queries exactly one provider,
\* the one the priority rule names.
C1_ExactlyOneProvider ==
  Fetched => last.queried = << PriorityProvider(last.resolved) >>

\* C1, amended: every fetch queries at most one provider and never another than
\* the one the priority rule names (DOI -> CrossRef; else venue not a preprint
\* venue -> DBLP; else arXiv), with no fall-through; it queries none exactly
\* when that provider's key is missing (no title for DBLP, no arXiv id for arXiv).
C1_AtMostOneProvider ==
  Fetched =>
    /\ Len(last.queried) <= 1
    /\ last.queried # << >> => last.queried = << PriorityProvider(last.resolved) >>
    /\ last.queried = << >> <=> ProviderKeyMissing(last.resolved)

\* DBLP was the one provider asked and had no record, although the paper has an
\* arXiv id that a lower-priority provider could have served.
C1_Witness ==
  /\ Fetched
  /\ last.queried = <<"dblp">>
  /\ ~last.metadata.found
  /\ last.resolved.arxiv_id # << >>
  /\ last.result.message = "Paper not found"

\* C2: verify_file never ends by an exception and, once it has returned, the
\* report holds exactly one result per entry of the file.
C2_OneResultPerEntry ==
  /\ pc # "raised"
  /\ pc = "done" => report.total_entries = Len(entries)

WorstStatus(results) ==
  IF \E i \in 1..Len(results) : Status(results[i]) = FAIL THEN FAIL
  ELSE IF \E i \in 1..Len(results) : Status(results[i]) = WARNING THEN WARNING
  ELSE PASS

\* C3: after any sequence of add_result calls the overall status is the worst
\* status among the added results, and the exit code is its numeric value.
C3_OverallIsWorst ==
  /\ OverallStatus(report) = WorstStatus(report.results)
  /\ ExitCode(report) = WorstStatus(report.results)

UnfixedMismatch(r) == r.mismatches # << >> /\ ~r.fixed

LookupFailed(r) == ~r.success /\ ~r.already_verified /\ ~r.no_paper_id

\* C4: the status of every result is FAIL when it has an unfixed mismatch or its
\* lookup failed; otherwise WARNING when it has warnings or lacks an identifier;
\* otherwise PASS, a result whose mismatches were all fixed included.
C4_StatusDerivation ==
  \A i \in 1..Len(report.results) :
    LET r == report.results[i]
    IN  /\ Status(r) = FAIL <=> (UnfixedMismatch(r) \/ LookupFailed(r))
        /\ Status(r) = WARNING <=>
             /\ ~(UnfixedMismatch(r) \/ LookupFailed(r))
             /\ (r.warnings # << >> \/ r.no_paper_id)
        /\ Status(r) = PASS <=>
             /\ ~(UnfixedMismatch(r) \/ LookupFailed(r))
             /\ r.warnings = << >> /\ ~r.no_paper_id

\* A result whose mismatches were fixed and that has no warning is PASS.
C4_Witness ==
  \E i \in 1..Len(report.results) :
    /\ report.results[i].fixed
    /\ report.results[i].mismatches # << >>
    /\ report.results[i].warnings = << >>
    /\ Status(report.results[i]) = PASS

\* The last step is one where the conflict check applies: it is enabled, the
\* paper has an arXiv id, and the selected source, not arXiv, returned a record.
CrossCheckApplies ==
  /\ last.entry_key # 0
  /\ cfg.arxiv_check
  /\ last.resolved.arxiv_id # << >>
  /\ last.metadata.found
  /\ last.metadata.source # "arxiv"

\* ... and the arXiv record's normalized author list differs from the source's.
AuthorsConflict ==
  /\ CrossCheckApplies
  /\ last.cross.kind = "meta"
  /\ NormalizedAuthors(last.cross.authors) # NormalizedAuthors(last.metadata.authors)

\* C5: whenever the conflict check applies, arXiv is asked independently, and
\* when its normalized author list differs from the selected source's the entry's
\* result is FAIL, whatever the field comparison gives and whether or not
\* fix_mismatches is on.
C5_ConflictOverride ==
  /\ CrossCheckApplies => last.cross.kind # "unasked"
  /\ AuthorsConflict =>
       /\ Status(last.result) = FAIL
       /\ report.results[Len(report.results)] = last.result

\* A conflict failed an entry all of whose local fields match the selected
\* source exactly, with fix_mismatches on.
C5_Witness ==
  /\ AuthorsConflict
  /\ cfg.fix_mismatches
  /\ CheckFieldMismatches(entries[last.entry_key], last.metadata)
       = [mismatches |-> << >>, warnings |-> << >>]
  /\ Status(last.result) = FAIL

\* The results of the entries this run verified and wrote an annotation for.
Written(r) ==
  r.success /\ r.needs_update /\ r.has_metadata /\ r.paper_id_used # << >>

\* C8: the annotation written for an entry that PASSed is read back from the
\* updated content as verified, with the paper_id used and today's date, so that
\* a second run with skipping enabled and no max-age skips the entry.
C8_AnnotationRoundTrip ==
  \A i \in 1..Len(report.results) :
    LET r == report.results[i]
        v == IsEntryVerified(updated_content, r.entry_key)
    IN  (Written(r) /\ Status(r) = PASS) =>
          /\ v.is_verified
          /\ v.paper_id = r.paper_id_used
          /\ v.date_str = today
          /\ ShouldSkipVerified(NoInt, v.date_str, today)

\* A line carries the words "verified via".
HasVerifiedVia(line) == Contains(line, <<"verified", " ", "via">>)

LastLine(block) == block[Len(block)]

\* C9: what verify_file has done to the content of each entry that has a result.
\* FAIL, already-verified and no-identifier entries are unchanged; a WARNING
\* entry gets the bare paper_id annotation as its only annotation unless
\* mark_warnings_verified is set; a 'verified via' line is in the updated
\* comments of a verified entry only if its result is PASS (or WARNING under
\* mark_warnings_verified), and a PASS entry gets one.  Entries without a result
\* are unchanged.
C9_WriteBack ==
  /\ \A k \in 1..Len(entries) :
       (\A i \in 1..Len(report.results) : report.results[i].entry_key # k)
         => updated_content[k] = content[k]
  /\ \A i \in 1..Len(report.results) :
       LET r == report.results[i]
           old == content[r.entry_key]
           new == updated_content[r.entry_key]
           bare == <<"%", " ", "paper_id:", " ">> \o r.paper_id_used
       IN  /\ (Status(r) = FAIL \/ r.already_verified \/ r.no_paper_id) => new = old
           /\ (Status(r) = WARNING /\ ~r.no_paper_id /\ ~cfg.mark_warnings_verified) =>
                /\ new.comments # << >>
                /\ LastLine(new.comments) = bare
                /\ \A j \in 1..Len(new.comments) : ~HasVerifiedVia(new.comments[j])
           /\ (~r.already_verified
               /\ \E j \in 1..Len(new.comments) : HasVerifiedVia(new.comments[j])
               /\ new # old) =>
                \/ Status(r) = PASS
                \/ Status(r) = WARNING /\ cfg.mark_warnings_verified
           /\ (Status(r) = PASS /\ ~r.already_verified) =>
                /\ new.comments # << >>
                /\ HasVerifiedVia(LastLine(new.comments))
                /\ SubSeq(LastLine(new.comments), 1, Len(bare)) = bare

\* A WARNING entry whose paper_id annotation was rewritten as a bare one.
C9_Witness ==
  \E i \in 1..Len(report.results) :
    /\ Status(report.results[i]) = WARNING
    /\ ~report.results[i].no_paper_id
    /\ ~cfg.mark_warnings_verified
    /\ updated_content[report.results[i].entry_key] # content[report.results[i].entry_key]
    /\ ~HasVerifiedVia(LastLine(updated_content[report.results[i].entry_key].comments))

\* The messages of the results verify_file produces.
OrdinaryMessages ==
  { "Already verified", "No paper_id found", "Paper not found", "API error",
    "arXiv cross-check failed", "Fixed and verified", "Field mismatch",
    "Verified", "Verified (warning)" }

\* C10: the result of an entry whose annotation has a verifier tag but no date
\* is a state of its own: not already-verified, and none of the outcomes of an
\* ordinary unverified entry.
C10_MissingDateIsAState ==
  \A i \in 1..Len(report.results) :
    HasMissingDate(content, report.results[i].entry_key) =>
      /\ ~report.results[i].already_verified
      /\ report.results[i].message \notin OrdinaryMessages

(***************************************************************************)
(* C11: identifier extraction.                                             *)
(***************************************************************************)
\* The annotations of the two forms: "% paper_id: <id>" alone, or followed by
\* ", verified via <verifier> (<date>)".  All of them name PaperId.
AnnotationLines ==
  {BareLine, ToolLine} \cup { VerifiedLine(d) : d \in DOMAIN DateDigits }

Annotated(i) == \E k \in 1..Len(content[i].comments) : content[i].comments[k] \in AnnotationLines

\* The entry carries a verifier tag without a date, which is neither form.
DatelessTag(i) == \E k \in 1..Len(content[i].comments) : content[i].comments[k] = MissingDateLine

\* The first loop has dealt with entry i, and did not skip it as verified.
Collected(i) ==
  /\ i \in 1..Len(entries)
  /\ (pc = "collect" => i < idx)
  /\ ~\E k \in 1..Len(report.results) :
        report.results[k].entry_key = i /\ report.results[k].already_verified

\* The identifier entry i is to be given: the annotation's, else under
\* auto-discovery the doi field's, else the eprint field's, else none.
IdentifierByPriority(i) ==
  IF Annotated(i) THEN PaperId
  ELSE IF cfg.auto_find_level = "none" THEN << >>
  ELSE IF entries[i].doi # << >> THEN <<"DOI:", "10.1/x">>
  ELSE IF entries[i].eprint # << >> THEN <<"ARXIV:", "2106.09685">>
  ELSE << >>

Queued(i, paper_id) ==
  \E k \in 1..Len(entries_to_verify) :
     entries_to_verify[k].entry.ID = i /\ entries_to_verify[k].paper_id = paper_id

NoIdentifierResult(i) ==
  \E k \in 1..Len(report.results) :
     /\ report.results[k].entry_key = i
     /\ report.results[k].no_paper_id
     /\ report.results[k].success
     /\ Status(report.results[k]) = WARNING

\* C11: every entry the first loop dealt with and did not skip is queued with the
\* identifier of its annotation when it has one, else (auto-discovery on) of its
\* doi field, else of its eprint field; an entry with none of these gets a
\* no-identifier result (success, WARNING), is not queued, and no request is
\* sent for it.
C11_IdentifierExtraction ==
  \A i \in 1..Len(entries) :
     (Collected(i) /\ ~DatelessTag(i)) =>
       IF IdentifierByPriority(i) # << >>
       THEN Queued(i, IdentifierByPriority(i))
       ELSE /\ NoIdentifierResult(i)
            /\ ~\E k \in 1..Len(entries_to_verify) : entries_to_verify[k].entry.ID = i
            /\ i \notin searched

(***************************************************************************)
(* C12: compare_titles.                                                    *)
(***************************************************************************)
\* The words of a text: its maximal runs of atoms that are not blanks, markup
\* atoms left out and letter case folded.
RECURSIVE WordsFrom(_, _, _)
WordsFrom(s, markup, word) ==
  IF s = << >> THEN IF word = << >> THEN << >> ELSE <<word>>
  ELSE IF Head(s) = " "
       THEN IF word = << >> THEN WordsFrom(Tail(s), markup, << >>)
            ELSE <<word>> \o WordsFrom(Tail(s), markup, << >>)
  ELSE IF Head(s) \in markup THEN WordsFrom(Tail(s), markup, word)
  ELSE WordsFrom(Tail(s), markup, Append(word, LowerAtom(Head(s))))

FoldedWords(s) == WordsFrom(s, {"{", "}", "$"}, << >>)

TitlesCompared == call.fn = "compare_titles" /\ call.done

\* C12: compare_titles answers (match, no warning) exactly for identical raw
\* strings; (match, warning) exactly for different strings that are equal once
\* braces and "$" are removed, whitespace collapsed and letter case folded;
\* and (mismatch, no warning) in every other case.
C12_CompareTitles ==
  TitlesCompared =>
    /\ (call.result.match /\ ~call.result.warning_only) <=> call.a = call.b
    /\ (call.result.match /\ call.result.warning_only) <=>
         (call.a # call.b /\ FoldedWords(call.a) = FoldedWords(call.b))
    /\ ~call.result.match => ~call.result.warning_only

\* compare_titles was called on two titles that differ in braces, letter case
\* and blanks only, and on two that differ in a punctuation mark.
C12_Witness ==
  /\ TitlesCompared
  /\ call.a = <<"$", "DEEP", "$", " ", "Learning">>
  /\ call.b = <<" ", "Deep", " ", "Learning", " ">>
  /\ call.result = [match |-> TRUE, warning_only |-> TRUE]

(***************************************************************************)
(* C13: compare_authors.                                                   *)
(***************************************************************************)
\* The words of a text in their own letter case, markup atoms left out.
RECURSIVE WordsKeepingCase(_, _, _)
WordsKeepingCase(s, markup, word) ==
  IF s = << >> THEN IF word = << >> THEN << >> ELSE <<word>>
  ELSE IF Head(s) = " "
       THEN IF word = << >> THEN WordsKeepingCase(Tail(s), markup, << >>)
            ELSE <<word>> \o WordsKeepingCase(Tail(s), markup, << >>)
  ELSE IF Head(s) \in markup THEN WordsKeepingCase(Tail(s), markup, word)
  ELSE WordsKeepingCase(Tail(s), markup, Append(word, Head(s)))

\* A name as given words followed by family words: "Family, Given" is read
\* at its first comma, any other name as it stands.
NameWords(name) ==
  LET markup == {"{", "}"} \cup LatexCommands
      c == FirstIn(name, {","})
  IN  IF c = 0 THEN WordsKeepingCase(name, markup, << >>)
      ELSE WordsKeepingCase(Slice(name, c + 1, Len(name)), markup, << >>)
             \o WordsKeepingCase(Slice(name, 1, c - 1), markup, << >>)

AuthorsCompared == call.fn = "compare_authors" /\ call.done

\* The author field is, atom for atom, the fetched names joined by " and ".
SameRawAuthors == call.a = Join(call.b, <<" ", "and", " ">>)

\* As many authors on both sides, and at every position the same name up to
\* name order and markup, letter case kept.
SameAuthorsInOrder ==
  LET bib == ParseBibtexAuthors(call.a)
  IN  /\ Len(bib) = Len(call.b)
      /\ \A i \in 1..Len(bib) : NameWords(bib[i]) = NameWords(call.b[i])

\* C13: compare_authors answers a clean pass for an author field identical to
\* the fetched names joined by " and "; otherwise (match, warning) when the
\* author counts are equal and the names at each position are equal after
\* name-order normalisation and markup stripping, letter case kept; and a
\* mismatch without warning in every other case: a change of letter case, an
\* abbreviated name, a different count, a different order.
C13_CompareAuthors ==
  AuthorsCompared =>
    /\ SameRawAuthors => call.result = [match |-> TRUE, warning_only |-> FALSE]
    /\ (~SameRawAuthors /\ SameAuthorsInOrder) =>
         call.result = [match |-> TRUE, warning_only |-> TRUE]
    /\ (~SameRawAuthors /\ ~SameAuthorsInOrder) =>
         call.result = [match |-> FALSE, warning_only |-> FALSE]
    /\ call.a \in { <<"Jane", " ", "Doe", " ", "and", " ", "John", " ", "Smith">>,
                    <<"John", " ", "smith">>, <<"J.", " ", "Smith">>,
                    <<"Smith", " ", "John">> }
       /\ call.b \in { << <<"John", " ", "Smith">> >>,
                       << <<"John", " ", "Smith">>, <<"Jane", " ", "Doe">> >> }
       => ~call.result.match

\* compare_authors was called on "Smith, John and Doe, Jane" and the names
\* John Smith, Jane Doe, and answered (match, warning).
C13_Witness ==
  /\ AuthorsCompared
  /\ call.a = <<"Smith", ",", " ", "John", " ", "and", " ", "Doe", ",", " ", "Jane">>
  /\ call.b = << <<"John", " ", "Smith">>, <<"Jane", " ", "Doe">> >>
  /\ call.result = [match |-> TRUE, warning_only |-> TRUE]

(***************************************************************************)
(* C14: the year comparison of _check_field_mismatches.                    *)
(***************************************************************************)
FieldsChecked == call.fn = "check_field_mismatches" /\ call.done

\* The integer a year field denotes: a numeral, blanks around it allowed.
YearValue(text) ==
  LET words == WordsKeepingCase(text, {}, << >>)
  IN  IF Len(words) = 1 /\ words[1] \in {<<"2023">>, <<"2024">>}
      THEN SomeInt(IF words[1] = <<"2023">> THEN 2023 ELSE 2024)
      ELSE NoInt

\* The entry has a year field and the provider gave a year.
BothYears == call.a.year # << >> /\ call.b.year # 0

YearRecordedAsMismatch ==
  /\ Len(SelectSeq(call.result.mismatches, LAMBDA f : f = "year")) = 1
  /\ "year" \notin Range(call.result.warnings)

YearNotRecorded ==
  /\ "year" \notin Range(call.result.mismatches)
  /\ "year" \notin Range(call.result.warnings)

VenuesCompared == call.fn = "compare_venues" /\ call.done

\* The two names are the same name up to letter case and outer blanks, or the
\* alias table gives both the same canonical venue, or it gives one of them a
\* canonical venue whose token occurs inside the other name.
SameVenue(venue1, venue2) ==
  LET canonical1 == GetCanonicalVenue(venue1)
      canonical2 == GetCanonicalVenue(venue2)
  IN  \/ NormalizeVenue(venue1) = NormalizeVenue(venue2)
      \/ canonical1 # << >> /\ canonical2 # << >> /\ canonical1 = canonical2
      \/ canonical1 # << >> /\ canonical2 = << >>
           /\ Contains(NormalizeVenue(venue2), Lower(canonical1))
      \/ canonical2 # << >> /\ canonical1 = << >>
           /\ Contains(NormalizeVenue(venue1), Lower(canonical2))

\* C15: compare_venues answers a clean pass for identical raw strings;
\* otherwise (match, warning) exactly when both sides normalise to the same
\* canonical venue or one side contains the other's canonical token; in every
\* other case a mismatch: venues of different canonical venues never match.
C15_CompareVenues ==
  VenuesCompared =>
    /\ call.a = call.b => call.result = [match |-> TRUE, warning_only |-> FALSE]
    /\ (call.a # call.b /\ SameVenue(call.a, call.b)) =>
         call.result = [match |-> TRUE, warning_only |-> TRUE]
    /\ (call.a # call.b /\ ~SameVenue(call.a, call.b)) =>
         call.result = [match |-> FALSE, warning_only |-> FALSE]

(***************************************************************************)
(* C16: an arXiv-only entry whose author is written "Smith, John".         *)
(***************************************************************************)
\* The entry verified last has an arXiv id and no DOI, was resolved to the
\* venue arXiv, the arXiv provider returned the author John Smith for it, the
\* entry's author field is "Smith, John", and title, year and venue agree.
ArxivOnlyScenario ==
  /\ Fetched
  /\ \E entry \in {entries[last.entry_key]} :
       /\ entry.doi = << >> /\ entry.eprint # << >>
       /\ content[last.entry_key].comments = << >>
       /\ entry.author = <<"Smith", ",", " ", "John">>
       /\ entry.title = last.metadata.title
       /\ entry.year = <<"2024">> /\ last.metadata.year = 2024
       /\ entry.journal = last.metadata.venue
  /\ last.resolved.venue = <<"a","r","X","i","v">>
  /\ last.queried = <<"arxiv">>
  /\ last.metadata.found
  /\ last.metadata.source = "arxiv"
  /\ last.metadata.authors = <<Author(<<"John">>, <<"Smith">>)>>

LastResultCounted ==
  /\ Len(report.results) > 0
  /\ report.results[Len(report.results)] = last.result

InExecute(t) == threads[t].pc \in {"sleeping", "running"}

\* Two threads whose clients have the same limiter.
ShareLimiter(t, u) ==
  /\ t # u
  /\ threads[t].client # 0 /\ threads[u].client # 0
  /\ LimiterOf(t) = LimiterOf(u)

\* C17: every wrapped function called through a limiter starts at least
\* min_interval after the completion of the previous call made through that
\* limiter, whichever threads made the two calls, unless the limiter was
\* reset in between.
C17_Pacing ==
  \A t \in Threads :
    (threads[t].pc = "running" /\ threads[t].prev >= 0) =>
      threads[t].start - threads[t].prev >= limiters[LimiterOf(t)].min_interval

\* A thread runs its first function through a limiter on which another thread
\* completed a call before, after having slept exactly until min_interval
\* had passed.
C17_Witness ==
  \E t, u \in Threads :
    /\ ShareLimiter(t, u)
    /\ threads[t].pc = "running" /\ threads[t].calls = 0
    /\ threads[u].calls >= 1
    /\ threads[t].prev >= 0
    /\ threads[t].wake = threads[t].start
    /\ threads[t].start = threads[t].prev + limiters[LimiterOf(t)].min_interval

\* At most one thread is inside execute of a limiter, and it holds the lock.
Serialized ==
  /\ \A t \in Threads : InExecute(t) => limiters[LimiterOf(t)].lock = t
  /\ \A t, u \in Threads : (ShareLimiter(t, u) /\ InExecute(t)) => ~InExecute(u)

\* While a thread is inside execute of a limiter, the stored completion time
\* of that limiter changes only by that thread leaving execute, and no other
\* thread enters execute (where the time is read).
OnlyHolderTouchesTime ==
  \A t \in Threads :
    InExecute(t) =>
      /\ limiters'[LimiterOf(t)].last_request_time # limiters[LimiterOf(t)].last_request_time
           => threads'[t].pc = "ready"
      /\ \A u \in Threads :
           (ShareLimiter(t, u) /\ threads[u].pc = "ready") =>
             threads'[u].pc = "ready"

\* C18: execute waits, calls and marks completion under the limiter's one
\* lock: no two wrapped functions of one limiter run or wait at overlapping
\* times, and no other caller reads or changes the last-completion time
\* while a caller is between its wait and its mark-complete.
C18_Serialization == []Serialized /\ [][OnlyHolderTouchesTime]_vars

\* A thread runs its function while another thread with calls left shares
\* its limiter and is kept out.
C18_Witness ==
  \E t, u \in Threads :
    /\ ShareLimiter(t, u)
    /\ threads[t].pc = "running"
    /\ threads[u].pc = "ready" /\ threads[u].calls < MaxCalls

(***************************************************************************)
(* C19: the limiter registry.                                              *)
(***************************************************************************)
\* Two client objects draw on the same provider quota.
SameQuota(c1, c2) ==
  /\ c1.provider = c2.provider
  /\ c1.provider = "semantic_scholar" => RegistryKey(c1.api_key) = RegistryKey(c2.api_key)

\* C19: as long as the registry was never cleared, client objects of the same
\* provider quota hold the same limiter, whichever threads built them, and
\* client objects of different quotas hold different limiters: requests to one
\* provider are paced by one shared limiter, not by one limiter per client.
C19_SharedLimiter ==
  clears = 0 =>
    \A i, j \in 1..Len(clients) :
      SameQuota(clients[i], clients[j]) <=> clients[i].limiter = clients[j].limiter

(***************************************************************************)
(* C20: a 404 answer to a lookup.                                          *)
(***************************************************************************)
LookedUp == call.fn \in {"resolve_ids", "fetch_work", "search_by_title"} /\ call.done

\* C20: in every client, a lookup whose request is answered by status 404
\* returns None without raising and sends no further request: the 404 is the
\* last request, and the only sleeps are those after the failures before it.
C20_NotFoundIsAbsence ==
  LookedUp =>
    \A n \in 1..call.result.requests :
      call.a[n] = "404" =>
        /\ call.result.outcome = "none"
        /\ call.result.requests = n
        /\ Len(call.result.sleeps) = n - 1

(***************************************************************************)
(* C21: a provider that keeps failing.                                     *)
(***************************************************************************)
\* Every attempt of the retry budget meets a network error, a 5xx or a 429.
KeepsFailing(replies) ==
  \A k \in 1..max_retries : replies[k] \in {"timeout", "500", "429"}

\* C21: a client operation whose requests keep failing until the retry budget
\* is exhausted raises and never returns absence: the single resolution and the
\* CrossRef lookup raise, the DBLP search (one request, no retry) raises on a
\* failed request, and the batched resolution raises when the requests of one
\* of its chunks keep failing.
C21_OutageRaises ==
  call.done =>
    /\ (call.fn \in {"resolve_ids", "fetch_work"} /\ KeepsFailing(call.a))
          => call.result.outcome = "raise"
    /\ (call.fn = "search_by_title" /\ call.a[1] \in {"timeout", "500", "429"})
          => call.result.outcome = "raise"
    /\ (/\ call.fn = "resolve_ids_batch"
        /\ \E c \in 1..Len(call.result.chunks) : KeepsFailing(call.b.replies[c]))
          => call.result.outcome = "raise"

(***************************************************************************)
(* C22: a DOI that CrossRef has no record for.                             *)
(***************************************************************************)
\* The last entry verified was resolved to a DOI, CrossRef was asked, and the
\* fetch came back without a record.
DoiWithoutRecord ==
  /\ Fetched
  /\ last.resolved.doi # << >>
  /\ last.queried = <<"crossref">>
  /\ ~last.metadata.found

\* C22: when the resolution carries a DOI and CrossRef returns no record for
\* it, the fetch surfaces an error: the entry's result reports the error
\* condition, not a paper that was not found.
C22_UnresolvedDoiIsError ==
  DoiWithoutRecord => last.result.message = "API error"

(***************************************************************************)
(* C23: the chunks of the batched resolution.                              *)
(***************************************************************************)
BatchResolved == call.fn = "resolve_ids_batch" /\ call.done

RECURSIVE Concat(_)
Concat(seqs) == IF seqs = << >> THEN << >> ELSE Head(seqs) \o Concat(Tail(seqs))

\* The chunk that holds position k of the list, and the positions of a chunk.
ChunkAt(k) == ((k - 1) \div BATCH_SIZE) + 1

\* C23: the bodies of the requests of a batched resolution are consecutive
\* pieces of the list of 1 to 500 identifiers each, one body per chunk, sent
\* once when the first attempt is answered; when the call returns, the pieces
\* make up the whole list, the result has an entry for exactly the identifiers
\* of the list, and an identifier whose chunk was answered has the element the
\* answer holds at its position (the record of that identifier, or null
\* when the service does not know it), unless a later chunk holds the
\* identifier again.
C23_ChunkedBatch ==
  BatchResolved =>
    LET chunks == call.result.chunks
        bodies == [ c \in 1..Len(chunks) |-> chunks[c].ids ]
        sent == Concat(bodies)
        n == Len(call.a)
    IN  /\ \A c \in 1..Len(chunks) :
             /\ Len(chunks[c].ids) \in 1..500
             /\ c < Len(chunks) => Len(chunks[c].ids) = 500
             /\ call.b.replies[c][1] = "ok" => chunks[c].requests = 1
        /\ sent = SubSeq(call.a, 1, Len(sent))
        /\ call.result.outcome = "value" =>
             /\ sent = call.a
             /\ DOMAIN call.result.map = { call.a[k] : k \in 1..n }
             /\ \A k \in 1..n :
                  (/\ chunks[ChunkAt(k)].outcome = "response"
                   /\ \A j \in (k + 1)..n : call.a[j] = call.a[k] => ChunkAt(j) = ChunkAt(k))
                  => LET answer == ServerData(call.b.known, call.a[k])
                     IN  /\ call.result.map[call.a[k]].found = ~answer.isnull
                         /\ call.result.map[call.a[k]].paper_id = answer.paperId

\* A list of more than two chunks, with identifiers the service does not know
\* and one given twice, was resolved with every chunk answered.
C23_Witness ==
  /\ BatchResolved
  /\ Len(call.a) > 2 * BATCH_SIZE
  /\ call.b.known = "odd"
  /\ call.result.outcome = "value"
  /\ Len(call.result.chunks) = 3
  /\ \A c \in 1..3 : call.result.chunks[c].outcome = "response"
  /\ ~call.result.map[call.a[2]].found
  /\ call.result.map[call.a[3]].found

(***************************************************************************)
(* C24: a provider answer without title.                                   *)
(***************************************************************************)
\* C24: an answer whose parsing yields no title never becomes a metadata
\* record: no verified entry has a record with an empty title behind its
\* result, and so none has a PASS result from one.
C24_TitlelessIsAbsence ==
  last.entry_key # 0 =>
    /\ ~(last.metadata.found /\ last.metadata.title = << >>)
    /\ (last.queried # << >> /\ last.metadata.title = << >>)
          => Status(last.result) # PASS

(***************************************************************************)
(* C25: the retry bound.                                                   *)
(***************************************************************************)
\* C25: in every client a request is attempted at most 3 times, and exactly 3
\* times when every attempt fails with something other than a 404; the lookup
\* then ends by returning or raising.
C25_RetryBound ==
  call.done =>
    /\ call.fn \in {"resolve_ids", "fetch_work", "search_by_title"} =>
         /\ call.result.requests <= 3
         /\ KeepsFailing(call.a) => call.result.requests = 3
         /\ call.result.outcome \in {"value", "none", "raise"}
    /\ call.fn = "resolve_ids_batch" =>
         \A c \in 1..Len(call.result.chunks) :
           /\ call.result.chunks[c].requests <= 3
           /\ KeepsFailing(call.b.replies[c]) => call.result.chunks[c].requests = 3

(***************************************************************************)
(* C26: one batch resolution per run.                                      *)
(***************************************************************************)
\* The identifiers of the pending entries.
PendingIds == { entries_to_verify[i].paper_id : i \in 1..Len(entries_to_verify) }

\* Every entry of the file was decided on: it has its skip or no-identifier
\* result in the report, or it is pending, and the pending ones are in file
\* order.
AllDecided ==
  /\ idx > Len(entries)
  /\ \A k \in 1..Len(entries) :
       \/ \E i \in 1..Len(report.results) :
            /\ report.results[i].entry_key = entries[k].ID
            /\ report.results[i].already_verified \/ report.results[i].no_paper_id
       \/ \E i \in 1..Len(entries_to_verify) : entries_to_verify[i].entry = entries[k]
  /\ \A i, j \in 1..Len(entries_to_verify) :
       i < j => entries_to_verify[i].entry.ID < entries_to_verify[j].entry.ID

\* Where the run stands with respect to the resolution.
ResolutionPlaced ==
  /\ pc = "resolve" => AllDecided /\ entries_to_verify # << >>
  /\ pc \in {"collect", "resolve"} => last = NoStep /\ resolved_map = << >>
  /\ pc = "verify" => DOMAIN resolved_map = PendingIds
  /\ (pc = "done" /\ entries_to_verify = << >>) => resolved_map = << >> /\ last = NoStep

\* The resolution is entered from the collection only, is left for the
\* verification (or by its ConnectionError), and nothing else sets its result.
ResolvedOnce ==
  /\ pc' = "resolve" => pc = "collect"
  /\ pc = "resolve" => pc' \in {"verify", "raised"}
  /\ resolved_map' # resolved_map => pc = "resolve" /\ DOMAIN resolved_map' = PendingIds
  /\ pc \in {"verify", "done", "raised"} => pc' \in {"verify", "done"}

\* C26: a run of verify_file resolves identifiers at most once, in a single
\* batch of the identifiers of all pending entries in file order, after every
\* skip and no-identifier decision and before the first metadata fetch, and
\* not at all when no entry is pending.
C26_SingleBatchResolution == []ResolutionPlaced /\ [][ResolvedOnce]_vars

\* Two pending entries were resolved in one batch and both verified.
C26_Witness ==
  /\ pc = "done"
  /\ Len(entries_to_verify) = 2
  /\ Cardinality(PendingIds) = 2
  /\ DOMAIN resolved_map = PendingIds
  /\ last.entry_key = entries_to_verify[2].entry.ID

(***************************************************************************)
(* C27: bare arXiv identifiers on the two resolution paths.                *)
(***************************************************************************)
\* NNNN.NNNNN with four or five digits after the dot and an optional vN.
BareArxivId(id) ==
  \E digits \in {4, 5} :
    /\ Len(id) >= 5 + digits
    /\ \A k \in (1..4) \cup (6..(5 + digits)) : id[k] \in Digits
    /\ id[5] = "."
    /\ \/ Len(id) = 5 + digits
       \/ /\ Len(id) >= 7 + digits
          /\ id[6 + digits] = "v"
          /\ \A k \in (7 + digits)..Len(id) : id[k] \in Digits

\* What the single-identifier path sends for an identifier.
SentBySinglePath(id) ==
  IF BareArxivId(id) THEN <<"A", "R", "X", "I", "V", ":">> \o id ELSE id

\* C27: a bare numeric arXiv identifier is sent with the prefix ARXIV: on both
\* paths: resolve_ids sends it prefixed, and every identifier in the body of a
\* batch request is the one resolve_ids would send for it.
C27_SamePrefixOnBothPaths ==
  call.done =>
    /\ call.fn = "resolve_ids" => call.result.sent = SentBySinglePath(call.b)
    /\ call.fn = "resolve_ids_batch" =>
         \A c \in 1..Len(call.result.chunks) :
           \A i \in 1..Len(call.result.chunks[c].ids) :
             call.result.chunks[c].ids[i]
               = SentBySinglePath(call.a[(c - 1) * BATCH_SIZE + i])

(***************************************************************************)
(* C28: the counters of the report.                                        *)
(***************************************************************************)
Categories ==
  {"already_verified", "no_paper_id", "fixed", "verified", "verified_with_warnings",
   "failed"}

RECURSIVE SumOver(_, _)
SumOver(rep, names) ==
  IF names = {} THEN 0
  ELSE LET name == CHOOSE x \in names : TRUE
       IN  rep[name] + SumOver(rep, names \ {name})

CountersAddUp ==
  /\ report.total_entries = Len(report.results)
  /\ report.total_entries = SumOver(report, Categories)

\* A step that adds a result raises one category counter by one and leaves
\* the others as they were.
OneCounterMore ==
  report' # report =>
    /\ Len(report'.results) = Len(report.results) + 1
    /\ \E name \in Categories :
         /\ report'[name] = report[name] + 1
         /\ \A other \in Categories \ {name} : report'[other] = report[other]

\* C28: after any sequence of add_result calls total_entries is the number of
\* results and the sum of the six category counters, and each call raises
\* exactly one category counter and lowers none.
C28_ReportCounters == []CountersAddUp /\ [][OneCounterMore]_vars

\* Three results of three categories, a fixed one among them, were added.
C28_Witness ==
  /\ report.total_entries = 3
  /\ report.fixed = 1
  /\ report.failed = 1
  /\ report.verified_with_warnings = 1
  /\ report.results[3].fixed /\ report.results[3].success

(***************************************************************************)
(* C29: a wrapped function that raises.                                    *)
(***************************************************************************)
\* A lock is held only by a thread that is inside execute of that limiter.
NoLockLeft ==
  \A l \in 1..Len(limiters) :
    limiters[l].lock # 0 =>
      InExecute(limiters[l].lock) /\ LimiterOf(limiters[l].lock) = l

\* A function called through a limiter whose last call raised starts at least
\* min_interval after that call ended.
PacedAfterFailure ==
  \A t \in Threads :
    (threads[t].pc = "running" /\ limiters[LimiterOf(t)].failed) =>
      /\ threads[t].prev >= 0
      /\ threads[t].start - threads[t].prev >= limiters[LimiterOf(t)].min_interval

\* The step in which thread t's function raises: the exception reaches the
\* caller, the lock is free, and the time of the step is stored.
RaiseHandled ==
  \A t \in Threads :
    (threads[t].pc = "running" /\ threads'[t].pc = "ready" /\ threads'[t].raised) =>
      /\ limiters'[LimiterOf(t)].lock = 0
      /\ limiters'[LimiterOf(t)].last_request_time = clock
      /\ limiters'[LimiterOf(t)].failed

\* The clock of the model stops at MaxClock: the readings it can still take.
ClockReaches(wake) ==
  \E k \in 0..MaxClock :
    clock + k * TickStep <= MaxClock /\ clock + k * TickStep >= wake

\* A thread inside execute leaves it (a sleep that would end after the last
\* clock reading of the model is left out).
ExecuteEnds ==
  \A t \in Threads :
    (InExecute(t) /\ ClockReaches(threads[t].wake)) ~> ~InExecute(t)

\* C29: when the function passed to execute raises, the exception goes to
\* the caller, the lock is released and the completion time is stored; no lock
\* stays held outside execute and every call under way ends, so later calls
\* are not blocked for ever, and they start at least min_interval after the
\* failed call.
C29_RaisingFunction ==
  /\ [](NoLockLeft /\ PacedAfterFailure)
  /\ [][RaiseHandled]_vars
  /\ ExecuteEnds

\* A thread runs its function through a limiter whose previous call, made by
\* another thread, raised; it slept until min_interval had passed since.
C29_Witness ==
  \E t, u \in Threads :
    /\ ShareLimiter(t, u)
    /\ threads[t].pc = "running"
    /\ limiters[LimiterOf(t)].failed
    /\ threads[u].raised
    /\ threads[t].prev >= 0
    /\ threads[t].start = threads[t].prev + limiters[LimiterOf(t)].min_interval

(***************************************************************************)
(* C30: a fetched author without a given name.                             *)
(***************************************************************************)
\* _check_field_mismatches was given one fetched author with an empty given
\* name and an entry whose author field is just that name.
SingleWordAuthorCase ==
  /\ call.fn = "check_field_mismatches"
  /\ call.done
  /\ Len(call.b.authors) = 1
  /\ call.b.authors[1].given = << >>
  /\ call.a.author = call.b.authors[1].family

\* C30: for a fetched author whose given name is empty, an entry whose author
\* field is just that name gets no hard author mismatch: "Family, Given" of
\* the fetched author, normalized, is the normalized name of the entry.
C30_SingleWordAuthor ==
  SingleWordAuthorCase =>
    /\ \A i \in 1..Len(call.result.mismatches) : call.result.mismatches[i] # "author"
    /\ NormalizeAuthorName(FormatAuthorBibtexStyle(call.b.authors[1].given,
                                                   call.b.authors[1].family))
         = NormalizeAuthorName(call.a.author)

=============================================================================
